---------------------------- MODULE Spec2Model ----------------------------
(***************************************************************************)
(* Bidirectional hash-distributed A* on a block maze (HDAStar).            *)
(*                                                                         *)
(* Two directions ("start": from the start cell, "goal": from the goal     *)
(* cell) each run thread_num workers (hda_star_search).  A cell (x,y) is   *)
(* identified by its index y * cols + x, the index the maze_node macro     *)
(* computes.  One step of a worker is one access to shared memory together *)
(* with the thread-local computation around it.                            *)
(***************************************************************************)
EXTENDS Integers, Sequences, FiniteSets, TLC

VARIABLES
    rows, cols,      \* maze_file_t.rows / cols
    lines,           \* maze_file_t.lines: the mapped file, cell index -> byte
    input,           \* the bytes of the file before the program opened it
    nprocs,          \* get_nprocs()
    maze_nodes,      \* maze_t.nodes of each direction: cell -> node or NULL
    heap,            \* heap_t of each worker: size and the nodes array
    mqs,             \* hda_mq_t.head of each worker: the linked stack, head first
    msg_sent,        \* msg_sent[i] of each direction
    msg_received,    \* msg_received[i] of each direction
    return_value,    \* a_star_return_t {x, y, min_len}
    finished,        \* *finished, the termination flag
    pc,              \* position of each worker in hda_star_search
    node,            \* local node: the cell of the extracted node
    len,             \* local len of the meet check
    nbr,             \* local i of the neighbour loop
    msg,             \* local msg: the drained chain still to process
    recv_sum,        \* local msg_received_sum of the idle loop
    msg_sent_sum,    \* local msg_sent_sum of the idle loop
    sum_i,           \* local i of the two summing loops
    quiet,           \* history: the direction held no work at some instant of
                     \* the worker's current pass over the counters
    checked,         \* history: per direction and cell, the g of the cell's node
                     \* when its latest unpruned extraction finished its meet
                     \* check (0: no such extraction yet)
    released,        \* the worker's mem_pool has been destroyed
    main_pc,         \* position of main
    count,           \* main's count (the printed integer)
    first_count,     \* count printed by the previous run on this file (0: none)
    head,            \* hda_mq_t.head of each worker as a pointer (0: NULL)
    bin,             \* hda_mq_t.bin of each worker: its list of freed messages
    end_chunk_len,   \* messages each worker has taken from its own chunk
    chunk,           \* the messages of all chunks: address -> {next, x, y} and
                     \* the serial number of the message the address holds
    msg_new,         \* local new_msg of the send
    mq,              \* local id of the send: the index of the target queue
    msg_start,       \* local msg_start: the head the exchange returned
    chain_msg,       \* local msg while the chain is walked
    at,              \* position of each worker in the send and the receive
    sent_log,        \* history: the messages allocated, by serial number
    taken            \* history: the walks of each message, by serial number

\* The state of the search, and the state of the inboxes at pointer level.
run_vars == <<rows, cols, lines, input, nprocs, maze_nodes, heap, mqs, msg_sent,
              msg_received, return_value, finished, pc, node, len, nbr, msg,
              recv_sum, msg_sent_sum, sum_i, quiet, checked, released, main_pc, count,
              first_count>>

queue_vars == <<head, bin, end_chunk_len, chunk, msg_new, mq, msg_start,
                chain_msg, at, sent_log, taken>>

vars == <<run_vars, queue_vars>>

---------------------------------------------------------------------------
(* Bounds of the model. *)

\* Largest interior width and height of the mazes enumerated by Spec.
MaxSide == 3
\* Largest number of online CPUs enumerated by Spec.
MaxProcs == 2
\* Largest interior height of the mazes enumerated by FairSpec.
MaxFairHeight == 2
\* Largest interior width and height of the mazes enumerated by SpecPair.
MaxPairWidth == 3
MaxPairHeight == 1
\* Workers per direction in SpecPair.
PairWorkers == 2
\* Messages sent in SpecQueue, and its largest number of workers.
MaxSends == 4
MaxQueueWorkers == 3
\* Nodes and f-scores of the heap on its own.
MaxHeapNodes == 4
MaxF == 2

(* Program constants. *)
INT_MAX == 2147483647

Dirs == {"start", "goal"}
Other(d) == IF d = "start" THEN "goal" ELSE "start"

NULL == [null |-> TRUE]
NoCell == -1

---------------------------------------------------------------------------
(* Geometry and the maze file. *)

maze_index(cs, x, y) == y * cs + x
XOf(cs, c) == c % cs
YOf(cs, c) == c \div cs

abs(v) == IF v < 0 THEN -v ELSE v

heuristic(x1, y1, x2, y2) == abs(x1 - x2) + abs(y1 - y2)

hash_distribute(num, x, y) == (x + y) % num

\* A maze file in the layout main assumes: a wall border that holds the start
\* mark at (0,1) and the goal mark at (cols-1, rows-2); open is the set of
\* traversable interior cells.
MazeFile(rs, cs, open) ==
    [c \in 0..(rs * cs - 1) |->
        IF c = maze_index(cs, 0, 1) THEN "@"
        ELSE IF c = maze_index(cs, cs - 1, rs - 2) THEN "%"
        ELSE IF c \in open THEN " "
        ELSE "#"]

Interior(rs, cs) ==
    {maze_index(cs, x, y) : x \in 1..(cs - 2), y \in 1..(rs - 2)}

StartCell(cs) == maze_index(cs, 1, 1)
GoalCell(rs, cs) == maze_index(cs, cs - 2, rs - 2)

\* maze_init(cols, rows, start_x, start_y, goal_x, goal_y) of each direction.
start_x(d) == IF d = "start" THEN 1 ELSE cols - 2
start_y(d) == IF d = "start" THEN 1 ELSE rows - 2
\* goal_x taken at the first and last interior column.
goal_x_interior(d) == IF d = "start" THEN cols - 2 ELSE 1
goal_x(d) == IF d = "start" THEN cols - 1 ELSE 0
goal_y(d) == IF d = "start" THEN rows - 2 ELSE 1

thread_num == nprocs \div 2
Workers == 0..(thread_num - 1)

\* Neighbours with the offsets of the last neighbour mistyped: (x-1, y-1).
NeighboursSkewed(cs, c) ==
    <<maze_index(cs, XOf(cs, c) + 1, YOf(cs, c)),
      maze_index(cs, XOf(cs, c) - 1, YOf(cs, c)),
      maze_index(cs, XOf(cs, c), YOf(cs, c) + 1),
      maze_index(cs, XOf(cs, c) - 1, YOf(cs, c) - 1)>>

Neighbours(cs, c) ==
    <<maze_index(cs, XOf(cs, c) + 1, YOf(cs, c)),
      maze_index(cs, XOf(cs, c) - 1, YOf(cs, c)),
      maze_index(cs, XOf(cs, c), YOf(cs, c) + 1),
      maze_index(cs, XOf(cs, c), YOf(cs, c) - 1)>>

\* Owner by the column alone.
OwnerByColumn(c) == hash_distribute(thread_num, XOf(cols, c), 0)

Owner(c) == hash_distribute(thread_num, XOf(cols, c), YOf(cols, c))

---------------------------------------------------------------------------
(* Nodes and the indexed binary heap. *)

node_init == [gs |-> INT_MAX, fs |-> INT_MAX, heap_id |-> 0, parent |-> NoCell]

node_less(N, a, b) == N[a].fs < N[b].fs

Put(arr, k, v) == IF k = Len(arr) + 1 THEN Append(arr, v) ELSE [arr EXCEPT ![k] = v]

\* The sift-up loop shared by heap_insert and heap_update.
RECURSIVE SiftUp(_, _, _, _)
SiftUp(arr, N, c, cur) ==
    IF cur > 1 /\ node_less(N, c, arr[cur \div 2])
    THEN LET p == arr[cur \div 2]
         IN  SiftUp(Put(arr, cur, p), [N EXCEPT ![p].heap_id = cur], c, cur \div 2)
    ELSE [nodes |-> Put(arr, cur, c), N |-> [N EXCEPT ![c].heap_id = cur]]

heap_init == [size |-> 1, nodes |-> <<>>]

\* Result: [heap, N] with N the direction's nodes after the heap_id updates.
heap_insert(h, N, c) ==
    LET r == SiftUp(h.nodes, N, c, h.size)
    IN  [heap |-> [size |-> h.size + 1, nodes |-> r.nodes], N |-> r.N]

heap_update(h, N, c) ==
    LET r == SiftUp(h.nodes, N, c, N[c].heap_id)
    IN  [heap |-> [size |-> h.size, nodes |-> r.nodes], N |-> r.N]

\* The sift-down loop descending always to the left child.
RECURSIVE SiftDownLeft(_, _, _, _, _)
SiftDownLeft(arr, N, last, size, cur) ==
    IF 2 * cur < size
    THEN LET child == 2 * cur
         IN  IF node_less(N, arr[child], last)
             THEN SiftDownLeft([arr EXCEPT ![cur] = arr[child]],
                               [N EXCEPT ![arr[child]].heap_id = cur], last, size, child)
             ELSE [nodes |-> [arr EXCEPT ![cur] = last],
                   N |-> [N EXCEPT ![last].heap_id = cur]]
    ELSE [nodes |-> [arr EXCEPT ![cur] = last], N |-> [N EXCEPT ![last].heap_id = cur]]

\* The sift-down loop of heap_extract.
RECURSIVE SiftDown(_, _, _, _, _)
SiftDown(arr, N, last, size, cur) ==
    IF 2 * cur < size
    THEN LET c0 == 2 * cur
             child == IF c0 + 1 < size /\ node_less(N, arr[c0 + 1], arr[c0])
                      THEN c0 + 1 ELSE c0
         IN  IF node_less(N, arr[child], last)
             THEN SiftDown([arr EXCEPT ![cur] = arr[child]],
                           [N EXCEPT ![arr[child]].heap_id = cur], last, size, child)
             ELSE [nodes |-> [arr EXCEPT ![cur] = last],
                   N |-> [N EXCEPT ![last].heap_id = cur]]
    ELSE [nodes |-> [arr EXCEPT ![cur] = last], N |-> [N EXCEPT ![last].heap_id = cur]]

\* Result: [ret, heap, N].
heap_extract(h, N) ==
    LET size == h.size - 1
        r == SiftDown(h.nodes, N, h.nodes[size], size, 1)
    IN  [ret |-> h.nodes[1], heap |-> [size |-> size, nodes |-> r.nodes], N |-> r.N]


---------------------------------------------------------------------------
(* Arithmetic of int. *)

\* a + b in int for 0 <= a, b <= INT_MAX.  The sum of the meet check leaves
\* the range of int when the counterpart's g is still INT_MAX; that signed
\* overflow is undefined, and a build either wraps modulo 2^32 or behaves as if
\* the sum were not below any int (it saturates).
IntSums(a, b) ==
    IF b > INT_MAX - a
    THEN {(a - INT_MAX - 1) + (b - INT_MAX - 1), INT_MAX}
    ELSE {a + b}

RECURSIVE SumOver(_, _)
SumOver(f, S) ==
    IF S = {} THEN 0
    ELSE LET i == CHOOSE j \in S : TRUE IN f[i] + SumOver(f, S \ {i})

---------------------------------------------------------------------------
(* Initial states. *)

\* The maze files of at most maxw x maxh interior cells whose start and goal
\* cells are traversable.
Mazes(maxw, maxh) ==
    UNION { UNION { { [rows |-> h + 2, cols |-> w + 2,
                       file |-> MazeFile(h + 2, w + 2, open \cup
                                 {StartCell(w + 2), GoalCell(h + 2, w + 2)})] :
                      open \in SUBSET Interior(h + 2, w + 2) } :
                    w \in 1..maxw } : h \in 1..maxh }

MazeInputs == Mazes(MaxSide, MaxSide)

\* maze_file_init: the two marks are replaced by walls while the search runs.
maze_file_init(rs, cs, file) ==
    [file EXCEPT ![maze_index(cs, 0, 1)] = "#",
                 ![maze_index(cs, cs - 1, rs - 2)] = "#"]

\* main up to the creation of the two direction threads, and a_star_search up
\* to the creation of the workers.
InitRun(m, n, prev) ==
    /\ rows = m.rows
    /\ cols = m.cols
    /\ input = m.file
    /\ lines = maze_file_init(m.rows, m.cols, m.file)
    /\ nprocs = n
    /\ maze_nodes = [d \in Dirs |-> [c \in 0..(m.rows * m.cols - 1) |-> NULL]]
    /\ heap = [d \in Dirs |-> [i \in 0..(n \div 2 - 1) |-> heap_init]]
    /\ mqs = [d \in Dirs |-> [i \in 0..(n \div 2 - 1) |-> <<>>]]
    /\ msg_sent = [d \in Dirs |-> [i \in 0..(n \div 2 - 1) |-> 0]]
    /\ msg_received = [d \in Dirs |-> [i \in 0..(n \div 2 - 1) |-> 0]]
    /\ return_value = [x |-> -1, y |-> -1, min_len |-> INT_MAX]
    /\ finished = 0
    /\ pc = [d \in Dirs |-> [i \in 0..(n \div 2 - 1) |-> "start"]]
    /\ node = [d \in Dirs |-> [i \in 0..(n \div 2 - 1) |-> NoCell]]
    /\ len = [d \in Dirs |-> [i \in 0..(n \div 2 - 1) |-> 0]]
    /\ nbr = [d \in Dirs |-> [i \in 0..(n \div 2 - 1) |-> 0]]
    /\ msg = [d \in Dirs |-> [i \in 0..(n \div 2 - 1) |-> <<>>]]
    /\ recv_sum = [d \in Dirs |-> [i \in 0..(n \div 2 - 1) |-> 0]]
    /\ msg_sent_sum = [d \in Dirs |-> [i \in 0..(n \div 2 - 1) |-> 0]]
    /\ sum_i = [d \in Dirs |-> [i \in 0..(n \div 2 - 1) |-> 0]]
    /\ quiet = [d \in Dirs |-> [i \in 0..(n \div 2 - 1) |-> FALSE]]
    /\ checked = [d \in Dirs |-> [c \in 0..(m.rows * m.cols - 1) |-> 0]]
    /\ released = [d \in Dirs |-> [i \in 0..(n \div 2 - 1) |-> FALSE]]
    /\ main_pc = "join"
    /\ count = 0
    /\ first_count = prev
    /\ head = [i \in 0..(n \div 2 - 1) |-> 0]
    /\ bin = [i \in 0..(n \div 2 - 1) |-> 0]
    /\ end_chunk_len = [i \in 0..(n \div 2 - 1) |-> 0]
    /\ chunk = [p \in 1..((n \div 2) * MaxSends) |-> [next |-> 0, x |-> 0, y |-> 0, id |-> 0]]
    /\ msg_new = [i \in 0..(n \div 2 - 1) |-> 0]
    /\ mq = [i \in 0..(n \div 2 - 1) |-> 0]
    /\ msg_start = [i \in 0..(n \div 2 - 1) |-> 0]
    /\ chain_msg = [i \in 0..(n \div 2 - 1) |-> 0]
    /\ at = [i \in 0..(n \div 2 - 1) |-> "loop"]
    /\ sent_log = <<>>
    /\ taken = [id \in 0..MaxSends |-> <<>>]

Init == \E m \in MazeInputs, n \in 1..MaxProcs : InitRun(m, n, 0)

---------------------------------------------------------------------------
(* The worker, hda_star_search. *)

Running == main_pc = "join"

\* Direction d holds no work: the inboxes and the heaps of its workers are
\* empty and no worker is between an extraction and the end of its expansion,
\* or between a drain and the end of the chain it has taken.
Quiescent(d) ==
    \A i \in Workers :
        /\ mqs[d][i] = <<>>
        /\ heap[d][i].size = 1
        /\ msg[d][i] = <<>>
        /\ pc[d][i] \notin {"meet", "update", "expand", "receive", "modify"}

\* The worker is in a pass over the counters: it has read the first received
\* counter and not yet made the test that ends the pass.
Sampling(d, i) == pc[d][i] = "sum" \/ (pc[d][i] = "idle" /\ sum_i[d][i] > 0)

\* The step ends the meet check of the node worker i of direction d has
\* extracted: the counterpart's entry was empty, or the meeting has been
\* offered to the record.
MeetChecked(d, i) ==
    \/ pc[d][i] = "meet" /\ pc'[d][i] = "expand"
    \/ pc[d][i] = "update" /\ pc'[d][i] = "drain"

\* The history of the passes and of the meet checks, kept with every step of
\* a worker.
Observe ==
    /\ quiet' = [d \in Dirs |-> [i \in Workers |->
                    IF Sampling(d, i)'
                    THEN (Sampling(d, i) /\ quiet[d][i]) \/ Quiescent(d)'
                    ELSE FALSE]]
    /\ checked' = [d \in Dirs |-> [c \in DOMAIN checked[d] |->
                      IF \E i \in Workers : MeetChecked(d, i) /\ node[d][i] = c
                      THEN maze_nodes[d][c].gs
                      ELSE checked[d][c]]]

\* Reading a node whose arena its owner has already destroyed.
Dangling(d, c) == released[d][Owner(c)]

\* The process is killed by the fault of such a read (a step of a worker: the
\* history is kept by the action that takes it).
Fault ==
    /\ main_pc' = "crashed"
    /\ UNCHANGED <<rows, cols, lines, input, nprocs, maze_nodes, heap, mqs,
                   msg_sent, msg_received, return_value, finished, pc, node, len,
                   nbr, msg, recv_sum, msg_sent_sum, sum_i, released, count,
                   first_count>>

\* Start with worker 0 as the one that opens the start cell.
StartByFirst(d, i) ==
    /\ Running /\ pc[d][i] = "start"
    /\ IF i = 0
       THEN LET c == maze_index(cols, start_x(d), start_y(d))
                n == [node_init EXCEPT
                        !.gs = 1,
                        !.fs = 1 + heuristic(start_x(d), start_y(d), goal_x(d), goal_y(d))]
                r == heap_insert(heap[d][i], [maze_nodes[d] EXCEPT ![c] = n], c)
            IN  /\ msg_sent' = [msg_sent EXCEPT ![d][i] = @ + 1]
                /\ maze_nodes' = [maze_nodes EXCEPT ![d] = r.N]
                /\ heap' = [heap EXCEPT ![d][i] = r.heap]
       ELSE UNCHANGED <<msg_sent, maze_nodes, heap>>
    /\ pc' = [pc EXCEPT ![d][i] = "loop"]
    /\ UNCHANGED <<rows, cols, lines, input, nprocs, mqs, msg_received,
                   return_value, finished, node, len, nbr, msg, recv_sum, msg_sent_sum, sum_i,
                   released, main_pc, count, first_count>>
    /\ Observe
    /\ UNCHANGED queue_vars

\* Lines 166-181: the owner of the direction's start cell opens it.
Start(d, i) ==
    /\ Running /\ pc[d][i] = "start"
    /\ IF hash_distribute(thread_num, start_x(d), start_y(d)) = i
       THEN LET c == maze_index(cols, start_x(d), start_y(d))
                n == [node_init EXCEPT
                        !.gs = 1,
                        !.fs = 1 + heuristic(start_x(d), start_y(d), goal_x(d), goal_y(d))]
                r == heap_insert(heap[d][i], [maze_nodes[d] EXCEPT ![c] = n], c)
            IN  /\ msg_sent' = [msg_sent EXCEPT ![d][i] = @ + 1]
                /\ maze_nodes' = [maze_nodes EXCEPT ![d] = r.N]
                /\ heap' = [heap EXCEPT ![d][i] = r.heap]
       ELSE UNCHANGED <<msg_sent, maze_nodes, heap>>
    /\ pc' = [pc EXCEPT ![d][i] = "loop"]
    /\ UNCHANGED <<rows, cols, lines, input, nprocs, mqs, msg_received,
                   return_value, finished, node, len, nbr, msg, recv_sum, msg_sent_sum, sum_i,
                   released, main_pc, count, first_count>>
    /\ Observe
    /\ UNCHANGED queue_vars

\* Lines 325-328: the worker destroys its pool and heap and returns.
Return(d, i) ==
    /\ released' = [released EXCEPT ![d][i] = TRUE]
    /\ pc' = [pc EXCEPT ![d][i] = "done"]

\* Loop with a prune that counts the remaining entries only.
LoopRestOnly(d, i) ==
    /\ Running /\ pc[d][i] = "loop"
    /\ IF finished # 0
       THEN /\ Return(d, i)
            /\ UNCHANGED <<heap, maze_nodes, node, msg_received>>
       ELSE IF heap[d][i].size > 1
       THEN LET r == heap_extract(heap[d][i], maze_nodes[d])
            IN  /\ maze_nodes' = [maze_nodes EXCEPT ![d] = r.N]
                /\ IF r.N[r.ret].gs >= return_value.min_len
                   THEN /\ msg_received' =
                              [msg_received EXCEPT ![d][i] = @ + r.heap.size - 1]
                        /\ heap' = [heap EXCEPT ![d][i] = [r.heap EXCEPT !.size = 1]]
                        /\ UNCHANGED <<pc, node>>
                   ELSE /\ heap' = [heap EXCEPT ![d][i] = r.heap]
                        /\ node' = [node EXCEPT ![d][i] = r.ret]
                        /\ pc' = [pc EXCEPT ![d][i] = "meet"]
                        /\ UNCHANGED msg_received
            /\ UNCHANGED released
       ELSE /\ pc' = [pc EXCEPT ![d][i] = "idle"]
            /\ UNCHANGED <<heap, maze_nodes, node, msg_received, released>>
    /\ UNCHANGED <<rows, cols, lines, input, nprocs, mqs, msg_sent, return_value,
                   finished, len, nbr, msg, recv_sum, msg_sent_sum, sum_i, main_pc, count, first_count>>
    /\ Observe
    /\ UNCHANGED queue_vars

\* Lines 184-194: the loop test, and with nodes in the heap the extraction and
\* the test of the extracted node against the best length found; without, the
\* way into the idle loop.
Loop(d, i) ==
    /\ Running /\ pc[d][i] = "loop"
    /\ IF finished # 0
       THEN /\ Return(d, i)
            /\ UNCHANGED <<heap, maze_nodes, node, msg_received>>
       ELSE IF heap[d][i].size > 1
       THEN LET r == heap_extract(heap[d][i], maze_nodes[d])
            IN  /\ maze_nodes' = [maze_nodes EXCEPT ![d] = r.N]
                /\ IF r.N[r.ret].gs >= return_value.min_len
                   THEN /\ msg_received' =
                              [msg_received EXCEPT ![d][i] = @ + r.heap.size]
                        /\ heap' = [heap EXCEPT ![d][i] = [r.heap EXCEPT !.size = 1]]
                        /\ UNCHANGED <<pc, node>>
                   ELSE /\ heap' = [heap EXCEPT ![d][i] = r.heap]
                        /\ node' = [node EXCEPT ![d][i] = r.ret]
                        /\ pc' = [pc EXCEPT ![d][i] = "meet"]
                        /\ UNCHANGED msg_received
            /\ UNCHANGED released
       ELSE /\ pc' = [pc EXCEPT ![d][i] = "idle"]
            /\ UNCHANGED <<heap, maze_nodes, node, msg_received, released>>
    /\ UNCHANGED <<rows, cols, lines, input, nprocs, mqs, msg_sent, return_value,
                   finished, len, nbr, msg, recv_sum, msg_sent_sum, sum_i, main_pc, count, first_count>>
    /\ Observe
    /\ UNCHANGED queue_vars

\* Meet with the check made by the forward search only.
MeetForwardOnly(d, i) ==
    /\ Running /\ pc[d][i] = "meet"
    /\ LET c == node[d][i]
           other_node == maze_nodes[Other(d)][c]
       IN  IF other_node = NULL \/ d = "goal"
           THEN /\ pc' = [pc EXCEPT ![d][i] = "expand"]
                /\ nbr' = [nbr EXCEPT ![d][i] = 0]
                /\ UNCHANGED <<len, main_pc>>
                /\ UNCHANGED <<rows, cols, lines, input, nprocs, maze_nodes, heap,
                               mqs, msg_sent, msg_received, return_value, finished,
                               node, msg, recv_sum, msg_sent_sum, sum_i, released, count, first_count>>
           ELSE \/ /\ \E l \in IntSums(maze_nodes[d][c].gs, other_node.gs) :
                          len' = [len EXCEPT ![d][i] = l]
                   /\ pc' = [pc EXCEPT ![d][i] = "update"]
                   /\ UNCHANGED <<nbr, main_pc>>
                   /\ UNCHANGED <<rows, cols, lines, input, nprocs, maze_nodes,
                                  heap, mqs, msg_sent, msg_received, return_value,
                                  finished, node, msg, recv_sum, msg_sent_sum, sum_i, released, count,
                                  first_count>>
                \/ /\ Dangling(Other(d), c)
                   /\ Fault
    /\ Observe
    /\ UNCHANGED queue_vars

\* Lines 195-198: the counterpart's table entry and, when it is occupied, the
\* sum of the two g-scores.
Meet(d, i) ==
    /\ Running /\ pc[d][i] = "meet"
    /\ LET c == node[d][i]
           other_node == maze_nodes[Other(d)][c]
       IN  IF other_node = NULL
           THEN /\ pc' = [pc EXCEPT ![d][i] = "expand"]
                /\ nbr' = [nbr EXCEPT ![d][i] = 0]
                /\ UNCHANGED <<len, main_pc>>
                /\ UNCHANGED <<rows, cols, lines, input, nprocs, maze_nodes, heap,
                               mqs, msg_sent, msg_received, return_value, finished,
                               node, msg, recv_sum, msg_sent_sum, sum_i, released, count, first_count>>
           ELSE \/ /\ \E l \in IntSums(maze_nodes[d][c].gs, other_node.gs) :
                          len' = [len EXCEPT ![d][i] = l]
                   /\ pc' = [pc EXCEPT ![d][i] = "update"]
                   /\ UNCHANGED <<nbr, main_pc>>
                   /\ UNCHANGED <<rows, cols, lines, input, nprocs, maze_nodes,
                                  heap, mqs, msg_sent, msg_received, return_value,
                                  finished, node, msg, recv_sum, msg_sent_sum, sum_i, released, count,
                                  first_count>>
                \/ /\ Dangling(Other(d), c)
                   /\ Fault
    /\ Observe
    /\ UNCHANGED queue_vars

\* update_return_value with the comparison reversed.
update_return_value_reversed(rv, l, x, y) ==
    IF l > rv.min_len THEN [x |-> x, y |-> y, min_len |-> l] ELSE rv

\* update_return_value that records the coordinates in the other order.
update_return_value_transposed(rv, l, x, y) ==
    IF l < rv.min_len THEN [x |-> y, y |-> x, min_len |-> l] ELSE rv

\* update_return_value that also replaces a record of the same length.
update_return_value_or_equal(rv, l, x, y) ==
    IF l <= rv.min_len THEN [x |-> x, y |-> y, min_len |-> l] ELSE rv

\* Lines 200-207 and 261: the update of the best meeting under the mutex.
update_return_value(rv, l, x, y) ==
    IF l < rv.min_len THEN [x |-> x, y |-> y, min_len |-> l] ELSE rv

\* Update without the count of the processed node.
UpdateUncounted(d, i) ==
    /\ Running /\ pc[d][i] = "update"
    /\ return_value' = update_return_value(return_value, len[d][i],
                           XOf(cols, node[d][i]), YOf(cols, node[d][i]))
    /\ len' = [len EXCEPT ![d][i] = 0]
    /\ node' = [node EXCEPT ![d][i] = NoCell]
    /\ pc' = [pc EXCEPT ![d][i] = "drain"]
    /\ UNCHANGED <<rows, cols, lines, input, nprocs, maze_nodes, heap, mqs,
                   msg_sent, msg_received, finished, nbr, msg, recv_sum,
                   msg_sent_sum, sum_i, released, main_pc, count, first_count>>
    /\ Observe
    /\ UNCHANGED queue_vars

Update(d, i) ==
    /\ Running /\ pc[d][i] = "update"
    /\ return_value' = update_return_value(return_value, len[d][i],
                           XOf(cols, node[d][i]), YOf(cols, node[d][i]))
    /\ msg_received' = [msg_received EXCEPT ![d][i] = @ + 1]
    /\ len' = [len EXCEPT ![d][i] = 0]
    /\ node' = [node EXCEPT ![d][i] = NoCell]
    /\ pc' = [pc EXCEPT ![d][i] = "drain"]
    /\ UNCHANGED <<rows, cols, lines, input, nprocs, maze_nodes, heap, mqs,
                   msg_sent, finished, nbr, msg, recv_sum, msg_sent_sum, sum_i, released, main_pc,
                   count, first_count>>
    /\ Observe
    /\ UNCHANGED queue_vars

\* Sends without the test of the neighbour's byte.
SendsThroughWalls(d, c, k) ==
    LET t == Neighbours(cols, c)[k + 1]
        origin == maze_nodes[d][t]
    IN  origin = NULL \/ maze_nodes[d][c].gs + 1 < origin.gs

\* Lines 226-228: the neighbour k of the extracted node gets a proposal.
Sends(d, c, k) ==
    LET t == Neighbours(cols, c)[k + 1]
        origin == maze_nodes[d][t]
    IN  /\ lines[t] # "#"
        /\ (origin = NULL \/ maze_nodes[d][c].gs + 1 < origin.gs)

\* The neighbours from k on whose table entry is read through a dangling node.
ReadsDangling(d, c, k) ==
    \E j \in k..3 :
        LET t == Neighbours(cols, c)[j + 1]
        IN  lines[t] # "#" /\ maze_nodes[d][t] # NULL /\ Dangling(d, t)

\* Expand without the count of the expanded node.
ExpandUncounted(d, i) ==
    /\ Running /\ pc[d][i] = "expand"
    /\ LET c == node[d][i]
           todo == {k \in nbr[d][i]..3 : Sends(d, c, k)}
       IN  \/ /\ todo # {}
              /\ LET k == CHOOSE j \in todo : \A j2 \in todo : j <= j2
                     t == Neighbours(cols, c)[k + 1]
                     id == Owner(t)
                     new_msg == [parent |-> c, x |-> XOf(cols, t), y |-> YOf(cols, t),
                                 gs |-> maze_nodes[d][c].gs + 1]
                 IN  /\ msg_sent' = [msg_sent EXCEPT ![d][i] = @ + 1]
                     /\ mqs' = [mqs EXCEPT ![d][id] = <<new_msg>> \o @]
                     /\ nbr' = [nbr EXCEPT ![d][i] = k + 1]
              /\ UNCHANGED <<msg_received, pc, node, main_pc>>
              /\ UNCHANGED <<rows, cols, lines, input, nprocs, maze_nodes, heap,
                             return_value, finished, len, msg, recv_sum, msg_sent_sum, sum_i, released,
                             count, first_count>>
           \/ /\ todo = {}
              /\ UNCHANGED msg_received
              /\ nbr' = [nbr EXCEPT ![d][i] = 0]
              /\ node' = [node EXCEPT ![d][i] = NoCell]
              /\ pc' = [pc EXCEPT ![d][i] = "drain"]
              /\ UNCHANGED <<msg_sent, mqs, main_pc>>
              /\ UNCHANGED <<rows, cols, lines, input, nprocs, maze_nodes, heap,
                             return_value, finished, len, msg, recv_sum, msg_sent_sum, sum_i, released,
                             count, first_count>>
           \/ /\ ReadsDangling(d, c, nbr[d][i])
              /\ Fault
    /\ Observe
    /\ UNCHANGED queue_vars

\* Expand that pushes its proposals to the inboxes of the other direction.
ExpandAcross(d, i) ==
    /\ Running /\ pc[d][i] = "expand"
    /\ LET c == node[d][i]
           todo == {k \in nbr[d][i]..3 : Sends(d, c, k)}
       IN  \/ /\ todo # {}
              /\ LET k == CHOOSE j \in todo : \A j2 \in todo : j <= j2
                     t == Neighbours(cols, c)[k + 1]
                     id == Owner(t)
                     new_msg == [parent |-> c, x |-> XOf(cols, t), y |-> YOf(cols, t),
                                 gs |-> maze_nodes[d][c].gs + 1]
                 IN  /\ msg_sent' = [msg_sent EXCEPT ![d][i] = @ + 1]
                     /\ mqs' = [mqs EXCEPT ![Other(d)][id] = <<new_msg>> \o @]
                     /\ nbr' = [nbr EXCEPT ![d][i] = k + 1]
              /\ UNCHANGED <<msg_received, pc, node, main_pc>>
              /\ UNCHANGED <<rows, cols, lines, input, nprocs, maze_nodes, heap,
                             return_value, finished, len, msg, recv_sum, msg_sent_sum, sum_i, released,
                             count, first_count>>
           \/ /\ todo = {}
              /\ msg_received' = [msg_received EXCEPT ![d][i] = @ + 1]
              /\ nbr' = [nbr EXCEPT ![d][i] = 0]
              /\ node' = [node EXCEPT ![d][i] = NoCell]
              /\ pc' = [pc EXCEPT ![d][i] = "drain"]
              /\ UNCHANGED <<msg_sent, mqs, main_pc>>
              /\ UNCHANGED <<rows, cols, lines, input, nprocs, maze_nodes, heap,
                             return_value, finished, len, msg, recv_sum, msg_sent_sum, sum_i, released,
                             count, first_count>>
           \/ /\ ReadsDangling(d, c, nbr[d][i])
              /\ Fault
    /\ Observe
    /\ UNCHANGED queue_vars

\* Expand that pushes every proposal to the worker's own inbox.
ExpandToSelf(d, i) ==
    /\ Running /\ pc[d][i] = "expand"
    /\ LET c == node[d][i]
           todo == {k \in nbr[d][i]..3 : Sends(d, c, k)}
       IN  \/ /\ todo # {}
              /\ LET k == CHOOSE j \in todo : \A j2 \in todo : j <= j2
                     t == Neighbours(cols, c)[k + 1]
                     id == i
                     new_msg == [parent |-> c, x |-> XOf(cols, t), y |-> YOf(cols, t),
                                 gs |-> maze_nodes[d][c].gs + 1]
                 IN  /\ msg_sent' = [msg_sent EXCEPT ![d][i] = @ + 1]
                     /\ mqs' = [mqs EXCEPT ![d][id] = <<new_msg>> \o @]
                     /\ nbr' = [nbr EXCEPT ![d][i] = k + 1]
              /\ UNCHANGED <<msg_received, pc, node, main_pc>>
              /\ UNCHANGED <<rows, cols, lines, input, nprocs, maze_nodes, heap,
                             return_value, finished, len, msg, recv_sum, msg_sent_sum, sum_i, released,
                             count, first_count>>
           \/ /\ todo = {}
              /\ msg_received' = [msg_received EXCEPT ![d][i] = @ + 1]
              /\ nbr' = [nbr EXCEPT ![d][i] = 0]
              /\ node' = [node EXCEPT ![d][i] = NoCell]
              /\ pc' = [pc EXCEPT ![d][i] = "drain"]
              /\ UNCHANGED <<msg_sent, mqs, main_pc>>
              /\ UNCHANGED <<rows, cols, lines, input, nprocs, maze_nodes, heap,
                             return_value, finished, len, msg, recv_sum, msg_sent_sum, sum_i, released,
                             count, first_count>>
           \/ /\ ReadsDangling(d, c, nbr[d][i])
              /\ Fault
    /\ Observe
    /\ UNCHANGED queue_vars

\* Lines 224-261: the neighbour loop up to and including the next push, or to
\* its end when no further neighbour gets a proposal.
Expand(d, i) ==
    /\ Running /\ pc[d][i] = "expand"
    /\ LET c == node[d][i]
           todo == {k \in nbr[d][i]..3 : Sends(d, c, k)}
       IN  \/ /\ todo # {}
              /\ LET k == CHOOSE j \in todo : \A j2 \in todo : j <= j2
                     t == Neighbours(cols, c)[k + 1]
                     id == Owner(t)
                     new_msg == [parent |-> c, x |-> XOf(cols, t), y |-> YOf(cols, t),
                                 gs |-> maze_nodes[d][c].gs + 1]
                 IN  /\ msg_sent' = [msg_sent EXCEPT ![d][i] = @ + 1]
                     /\ mqs' = [mqs EXCEPT ![d][id] = <<new_msg>> \o @]
                     /\ nbr' = [nbr EXCEPT ![d][i] = k + 1]
              /\ UNCHANGED <<msg_received, pc, node, main_pc>>
              /\ UNCHANGED <<rows, cols, lines, input, nprocs, maze_nodes, heap,
                             return_value, finished, len, msg, recv_sum, msg_sent_sum, sum_i, released,
                             count, first_count>>
           \/ /\ todo = {}
              /\ msg_received' = [msg_received EXCEPT ![d][i] = @ + 1]
              /\ nbr' = [nbr EXCEPT ![d][i] = 0]
              /\ node' = [node EXCEPT ![d][i] = NoCell]
              /\ pc' = [pc EXCEPT ![d][i] = "drain"]
              /\ UNCHANGED <<msg_sent, mqs, main_pc>>
              /\ UNCHANGED <<rows, cols, lines, input, nprocs, maze_nodes, heap,
                             return_value, finished, len, msg, recv_sum, msg_sent_sum, sum_i, released,
                             count, first_count>>
           \/ /\ ReadsDangling(d, c, nbr[d][i])
              /\ Fault
    /\ Observe
    /\ UNCHANGED queue_vars

\* Line 279: the exchange of the inbox head with NULL.
Drain(d, i) ==
    /\ Running /\ pc[d][i] = "drain"
    /\ msg' = [msg EXCEPT ![d][i] = mqs[d][i]]
    /\ mqs' = [mqs EXCEPT ![d][i] = <<>>]
    /\ pc' = [pc EXCEPT ![d][i] = IF mqs[d][i] = <<>> THEN "loop" ELSE "receive"]
    /\ UNCHANGED <<rows, cols, lines, input, nprocs, maze_nodes, heap, msg_sent,
                   msg_received, return_value, finished, node, len, nbr, recv_sum, msg_sent_sum, sum_i,
                   released, main_pc, count, first_count>>
    /\ Observe
    /\ UNCHANGED queue_vars

\* Lines 293-300: the first message for a cell allocates its node and stores
\* the pointer in the table.
Open(d, i) ==
    /\ Running /\ pc[d][i] = "receive"
    /\ LET c == maze_index(cols, Head(msg[d][i]).x, Head(msg[d][i]).y)
       IN  /\ maze_nodes[d][c] = NULL
           /\ maze_nodes' = [maze_nodes EXCEPT ![d][c] = node_init]
    /\ pc' = [pc EXCEPT ![d][i] = "modify"]
    /\ UNCHANGED <<rows, cols, lines, input, nprocs, heap, mqs, msg_sent,
                   msg_received, return_value, finished, node, len, nbr, msg,
                   recv_sum, msg_sent_sum, sum_i, released, main_pc, count, first_count>>
    /\ Observe
    /\ UNCHANGED queue_vars

\* Modify that also applies a message whose g equals the node's.
ModifyOrEqual(d, i) ==
    /\ Running
    /\ \/ pc[d][i] = "modify"
       \/ /\ pc[d][i] = "receive"
          /\ maze_nodes[d][maze_index(cols, Head(msg[d][i]).x, Head(msg[d][i]).y)] # NULL
    /\ LET m == Head(msg[d][i])
           c == maze_index(cols, m.x, m.y)
           adj == maze_nodes[d][c]
       IN  IF m.gs <= adj.gs
           THEN LET N == [maze_nodes[d] EXCEPT
                            ![c].parent = m.parent,
                            ![c].gs = m.gs,
                            ![c].fs = m.gs + heuristic(m.x, m.y, goal_x(d), goal_y(d))]
                IN  IF adj.heap_id # 0
                    THEN LET r == heap_update(heap[d][i], N, c)
                         IN  /\ maze_nodes' = [maze_nodes EXCEPT ![d] = r.N]
                             /\ heap' = [heap EXCEPT ![d][i] = r.heap]
                             /\ msg_received' = [msg_received EXCEPT ![d][i] = @ + 1]
                    ELSE LET r == heap_insert(heap[d][i], N, c)
                         IN  /\ maze_nodes' = [maze_nodes EXCEPT ![d] = r.N]
                             /\ heap' = [heap EXCEPT ![d][i] = r.heap]
                             /\ UNCHANGED msg_received
           ELSE /\ msg_received' = [msg_received EXCEPT ![d][i] = @ + 1]
                /\ UNCHANGED <<maze_nodes, heap>>
    /\ msg' = [msg EXCEPT ![d][i] = Tail(@)]
    /\ pc' = [pc EXCEPT ![d][i] = IF Tail(msg[d][i]) = <<>> THEN "loop" ELSE "receive"]
    /\ UNCHANGED <<rows, cols, lines, input, nprocs, mqs, msg_sent, return_value,
                   finished, node, len, nbr, recv_sum, msg_sent_sum, sum_i, released, main_pc, count,
                   first_count>>
    /\ Observe
    /\ UNCHANGED queue_vars

\* Lines 302-321: the message is applied to its node; after the last message
\* of the chain the chain goes to the free list.
Modify(d, i) ==
    /\ Running
    /\ \/ pc[d][i] = "modify"
       \/ /\ pc[d][i] = "receive"
          /\ maze_nodes[d][maze_index(cols, Head(msg[d][i]).x, Head(msg[d][i]).y)] # NULL
    /\ LET m == Head(msg[d][i])
           c == maze_index(cols, m.x, m.y)
           adj == maze_nodes[d][c]
       IN  IF m.gs < adj.gs
           THEN LET N == [maze_nodes[d] EXCEPT
                            ![c].parent = m.parent,
                            ![c].gs = m.gs,
                            ![c].fs = m.gs + heuristic(m.x, m.y, goal_x(d), goal_y(d))]
                IN  IF adj.heap_id # 0
                    THEN LET r == heap_update(heap[d][i], N, c)
                         IN  /\ maze_nodes' = [maze_nodes EXCEPT ![d] = r.N]
                             /\ heap' = [heap EXCEPT ![d][i] = r.heap]
                             /\ msg_received' = [msg_received EXCEPT ![d][i] = @ + 1]
                    ELSE LET r == heap_insert(heap[d][i], N, c)
                         IN  /\ maze_nodes' = [maze_nodes EXCEPT ![d] = r.N]
                             /\ heap' = [heap EXCEPT ![d][i] = r.heap]
                             /\ UNCHANGED msg_received
           ELSE /\ msg_received' = [msg_received EXCEPT ![d][i] = @ + 1]
                /\ UNCHANGED <<maze_nodes, heap>>
    /\ msg' = [msg EXCEPT ![d][i] = Tail(@)]
    /\ pc' = [pc EXCEPT ![d][i] = IF Tail(msg[d][i]) = <<>> THEN "loop" ELSE "receive"]
    /\ UNCHANGED <<rows, cols, lines, input, nprocs, mqs, msg_sent, return_value,
                   finished, node, len, nbr, recv_sum, msg_sent_sum, sum_i, released, main_pc, count,
                   first_count>>
    /\ Observe
    /\ UNCHANGED queue_vars

\* Idle left as soon as any inbox of the direction holds a message.
IdleAnyInbox(d, i) ==
    /\ Running /\ pc[d][i] = "idle"
    /\ IF sum_i[d][i] = 0 /\ \E j \in Workers : mqs[d][j] # <<>>
       THEN /\ pc' = [pc EXCEPT ![d][i] = "drain"]
            /\ UNCHANGED <<recv_sum, sum_i>>
       ELSE /\ recv_sum' = [recv_sum EXCEPT ![d][i] = @ + msg_received[d][sum_i[d][i]]]
            /\ IF sum_i[d][i] + 1 < thread_num
               THEN /\ sum_i' = [sum_i EXCEPT ![d][i] = @ + 1]
                    /\ UNCHANGED pc
               ELSE /\ sum_i' = [sum_i EXCEPT ![d][i] = 0]
                    /\ pc' = [pc EXCEPT ![d][i] = "sum"]
    /\ UNCHANGED <<rows, cols, lines, input, nprocs, maze_nodes, heap, mqs,
                   msg_sent, msg_received, return_value, finished, node, len, nbr,
                   msg, msg_sent_sum, released, main_pc, count, first_count>>
    /\ Observe
    /\ UNCHANGED queue_vars

\* Lines 264-268: the test of the own inbox at the head of the idle loop, and
\* one read of the loop that sums the received counters.
Idle(d, i) ==
    /\ Running /\ pc[d][i] = "idle"
    /\ IF sum_i[d][i] = 0 /\ mqs[d][i] # <<>>
       THEN /\ pc' = [pc EXCEPT ![d][i] = "drain"]
            /\ UNCHANGED <<recv_sum, sum_i>>
       ELSE /\ recv_sum' = [recv_sum EXCEPT ![d][i] = @ + msg_received[d][sum_i[d][i]]]
            /\ IF sum_i[d][i] + 1 < thread_num
               THEN /\ sum_i' = [sum_i EXCEPT ![d][i] = @ + 1]
                    /\ UNCHANGED pc
               ELSE /\ sum_i' = [sum_i EXCEPT ![d][i] = 0]
                    /\ pc' = [pc EXCEPT ![d][i] = "sum"]
    /\ UNCHANGED <<rows, cols, lines, input, nprocs, maze_nodes, heap, mqs,
                   msg_sent, msg_received, return_value, finished, node, len, nbr,
                   msg, msg_sent_sum, released, main_pc, count, first_count>>
    /\ Observe
    /\ UNCHANGED queue_vars

\* detect_termination without the comparison of the two sums.
detect_termination_found(fin, min_len, sent_sum, received_sum) ==
    fin # 0 \/ min_len < INT_MAX

\* detect_termination without the test that a meeting has been found.
detect_termination_any(fin, min_len, sent_sum, received_sum) ==
    fin # 0 \/ sent_sum = received_sum

\* Lines 272-273: the test that ends the idle loop.
detect_termination(fin, min_len, sent_sum, received_sum) ==
    fin # 0 \/ (min_len < INT_MAX /\ sent_sum = received_sum)

\* Detect with the last sent counter left out of the sum it tests.
DetectShortSum(d, i) ==
    /\ Running /\ pc[d][i] = "sum"
    /\ IF sum_i[d][i] + 1 < thread_num
       THEN /\ msg_sent_sum' = [msg_sent_sum EXCEPT ![d][i] = @ + msg_sent[d][sum_i[d][i]]]
            /\ sum_i' = [sum_i EXCEPT ![d][i] = @ + 1]
            /\ UNCHANGED <<recv_sum, finished, released, pc>>
       ELSE /\ recv_sum' = [recv_sum EXCEPT ![d][i] = 0]
            /\ msg_sent_sum' = [msg_sent_sum EXCEPT ![d][i] = 0]
            /\ sum_i' = [sum_i EXCEPT ![d][i] = 0]
            /\ IF detect_termination(finished, return_value.min_len,
                                     msg_sent_sum[d][i],
                                     recv_sum[d][i])
               THEN /\ finished' = 1
                    /\ Return(d, i)
               ELSE /\ pc' = [pc EXCEPT ![d][i] = "idle"]
                    /\ UNCHANGED <<finished, released>>
    /\ UNCHANGED <<rows, cols, lines, input, nprocs, maze_nodes, heap, mqs,
                   msg_sent, msg_received, return_value, node, len, nbr, msg,
                   main_pc, count, first_count>>

    /\ Observe
    /\ UNCHANGED queue_vars

\* Lines 269-275: one read of the loop that sums the sent counters and, after
\* the last, the termination test.
Detect(d, i) ==
    /\ Running /\ pc[d][i] = "sum"
    /\ IF sum_i[d][i] + 1 < thread_num
       THEN /\ msg_sent_sum' = [msg_sent_sum EXCEPT ![d][i] = @ + msg_sent[d][sum_i[d][i]]]
            /\ sum_i' = [sum_i EXCEPT ![d][i] = @ + 1]
            /\ UNCHANGED <<recv_sum, finished, released, pc>>
       ELSE /\ recv_sum' = [recv_sum EXCEPT ![d][i] = 0]
            /\ msg_sent_sum' = [msg_sent_sum EXCEPT ![d][i] = 0]
            /\ sum_i' = [sum_i EXCEPT ![d][i] = 0]
            /\ IF detect_termination(finished, return_value.min_len,
                                     msg_sent_sum[d][i] + msg_sent[d][sum_i[d][i]],
                                     recv_sum[d][i])
               THEN /\ finished' = 1
                    /\ Return(d, i)
               ELSE /\ pc' = [pc EXCEPT ![d][i] = "idle"]
                    /\ UNCHANGED <<finished, released>>
    /\ UNCHANGED <<rows, cols, lines, input, nprocs, maze_nodes, heap, mqs,
                   msg_sent, msg_received, return_value, node, len, nbr, msg,
                   main_pc, count, first_count>>

    /\ Observe
    /\ UNCHANGED queue_vars

---------------------------------------------------------------------------
(* main after the joins: the path is stamped and counted. *)

\* The cells of the parent chain above node c of direction d, nearest first.
RECURSIVE Chain(_, _, _)
Chain(N, c, fuel) ==
    IF N[c].parent = NoCell \/ fuel = 0 THEN <<>>
    ELSE <<N[c].parent>> \o Chain(N, N[c].parent, fuel - 1)

Range(s) == {s[k] : k \in 1..Len(s)}

\* Stamp writing the byte of a wall.
StampWall(file, cells) == [c \in DOMAIN file |-> IF c \in cells THEN "#" ELSE file[c]]

Stamp(file, cells) == [c \in DOMAIN file |-> IF c \in cells THEN "*" ELSE file[c]]

Joined == \A d \in Dirs : \A i \in Workers : pc[d][i] = "done"

\* path_count with count starting at 0.
path_count_from_zero(fwd, bwd) == Len(fwd) + Len(bwd)

\* count starts at 1 for the meeting cell and grows by one per chain node.
path_count(fwd, bwd) == 1 + Len(fwd) + Len(bwd)

\* Lines 432-439 (with the count of part_000, lines 563-577).  Every node read
\* here lies in an arena that its worker destroyed when it returned; the read
\* either faults at the first node or finds the bytes as they were left.
\* Without workers (thread_num = 0) the record still holds (-1,-1): the accesses
\* are outside the file and the table, and either fault or hit nothing.
PrintSteps ==
    /\ main_pc = "join" /\ Joined
    /\ IF return_value.x < 0
       THEN /\ \/ main_pc' = "crashed" /\ UNCHANGED count
               \/ main_pc' = "destroy" /\ count' = 1
            /\ UNCHANGED lines
       ELSE LET c == maze_index(cols, return_value.x, return_value.y)
                fwd == Chain(maze_nodes["start"], c, rows * cols)
                bwd == Chain(maze_nodes["goal"], c, rows * cols)
            IN  \/ /\ lines' = Stamp(lines, {c})
                   /\ main_pc' = "crashed"
                   /\ UNCHANGED count
                \/ /\ lines' = Stamp(lines, {c} \cup Range(fwd) \cup Range(bwd))
                   /\ count' = path_count(fwd, bwd)
                   /\ main_pc' = "destroy"
    /\ UNCHANGED <<rows, cols, input, nprocs, maze_nodes, heap, mqs, msg_sent,
                   msg_received, return_value, finished, pc, node, len, nbr, msg,
                   recv_sum, msg_sent_sum, sum_i, quiet, checked, released, first_count>>
    /\ UNCHANGED queue_vars

\* maze_file_destroy: the two marks are written back.
maze_file_destroy(rs, cs, file) ==
    [file EXCEPT ![maze_index(cs, 0, 1)] = "@",
                 ![maze_index(cs, cs - 1, rs - 2)] = "%"]

Destroy ==
    /\ main_pc = "destroy"
    /\ lines' = maze_file_destroy(rows, cols, lines)
    /\ main_pc' = "done"
    /\ UNCHANGED <<rows, cols, input, nprocs, maze_nodes, heap, mqs, msg_sent,
                   msg_received, return_value, finished, pc, node, len, nbr, msg,
                   recv_sum, msg_sent_sum, sum_i, quiet, checked, released, count, first_count>>
    /\ UNCHANGED queue_vars

---------------------------------------------------------------------------
(* Specifications. *)

Next ==
    \/ \E d \in Dirs : \E i \in Workers : Start(d, i)
    \/ \E d \in Dirs : \E i \in Workers : Loop(d, i)
    \/ \E d \in Dirs : \E i \in Workers : Meet(d, i)
    \/ \E d \in Dirs : \E i \in Workers : Update(d, i)
    \/ \E d \in Dirs : \E i \in Workers : Expand(d, i)
    \/ \E d \in Dirs : \E i \in Workers : Drain(d, i)
    \/ \E d \in Dirs : \E i \in Workers : Open(d, i)
    \/ \E d \in Dirs : \E i \in Workers : Modify(d, i)
    \/ \E d \in Dirs : \E i \in Workers : Idle(d, i)
    \/ \E d \in Dirs : \E i \in Workers : Detect(d, i)
    \/ PrintSteps
    \/ Destroy

Spec == Init /\ [][Next]_vars


---------------------------------------------------------------------------
(* The reference: breadth-first search on the file. *)

Traversable(file, c) == file[c] # "#"

\* The number of cells on a shortest 4-connected path of traversable cells
\* from cell a to cell b of the file, 0 when there is none.
RECURSIVE BfsFrom(_, _, _, _, _, _)
BfsFrom(file, cs, seen, frontier, b, dist) ==
    IF b \in frontier THEN dist
    ELSE IF frontier = {} THEN 0
    ELSE LET next == {t \in DOMAIN file :
                        /\ t \notin seen
                        /\ Traversable(file, t)
                        /\ \E c \in frontier : \E k \in 1..4 : Neighbours(cs, c)[k] = t}
         IN  BfsFrom(file, cs, seen \cup next, next, b, dist + 1)

bfs_length(file, rs, cs) ==
    BfsFrom(file, cs, {StartCell(cs)}, {StartCell(cs)}, GoalCell(rs, cs), 1)

\* The grid the workers search: the input with its two marks walled.
Grid == maze_file_init(rows, cols, input)

\* The number of cells of a shortest path from the start cell to the goal cell.
Shortest == bfs_length(Grid, rows, cols)

Solvable == Shortest > 0

---------------------------------------------------------------------------
(* Scheduling.  The workers and main are preemptive threads of the operating  *)
(* system: a thread that can take a step eventually takes one.                *)

Worker(d, i) ==
    /\ i \in Workers
    /\ \/ Start(d, i) \/ Loop(d, i) \/ Meet(d, i) \/ Update(d, i) \/ Expand(d, i)
       \/ Drain(d, i) \/ Open(d, i) \/ Modify(d, i) \/ Idle(d, i) \/ Detect(d, i)

Fairness ==
    /\ \A d \in Dirs : \A i \in 0..(MaxProcs \div 2 - 1) : WF_vars(Worker(d, i))
    /\ WF_vars(PrintSteps \/ Destroy)

InitFair == \E m \in Mazes(MaxSide, MaxFairHeight), n \in 1..MaxProcs : InitRun(m, n, 0)

FairSpec == InitFair /\ [][Next]_vars /\ Fairness

---------------------------------------------------------------------------
(* Two workers per direction on the smallest mazes. *)

InitPair ==
    \E m \in Mazes(MaxPairWidth, MaxPairHeight) : InitRun(m, 2 * PairWorkers, 0)

SpecPair == InitPair /\ [][Next]_vars

---------------------------------------------------------------------------
(* Particular mazes. *)

\* Five rows of six cells: the corridor from the start turns at (1,3) and runs
\* to the goal along row 3; the cells (3,2) and (4,2) form a bay above it.
\*      ######
\*      @ ####
\*      # #  #
\*      #    %
\*      ######
DetourMaze ==
    [rows |-> 5, cols |-> 6,
     file |-> MazeFile(5, 6, {maze_index(6, 1, 1), maze_index(6, 1, 2),
                              maze_index(6, 1, 3), maze_index(6, 2, 3),
                              maze_index(6, 3, 3), maze_index(6, 4, 3),
                              maze_index(6, 3, 2), maze_index(6, 4, 2)})]

InitDetour == \E n \in 2..MaxProcs : InitRun(DetourMaze, n, 0)

SpecDetour == InitDetour /\ [][Next]_vars

\* Seven rows of seven cells, all interior cells open but the wall from (3,1)
\* to (3,4).
WallMaze ==
    [rows |-> 7, cols |-> 7,
     file |-> MazeFile(7, 7, Interior(7, 7) \ {maze_index(7, 3, y) : y \in 1..4})]

InitWall == \E n \in 2..MaxProcs : InitRun(WallMaze, n, 0)

SpecWall == InitWall /\ [][Next]_vars

\* Five rows of five cells: the corridor along row 1 and down column 3.
\*      #####
\*      @   #
\*      ### #
\*      ### %
\*      #####
CorridorCells ==
    {maze_index(5, 1, 1), maze_index(5, 2, 1), maze_index(5, 3, 1),
     maze_index(5, 3, 2), maze_index(5, 3, 3)}

CorridorMaze == [rows |-> 5, cols |-> 5, file |-> MazeFile(5, 5, CorridorCells)]

InitCorridor == \E n \in 2..MaxProcs : InitRun(CorridorMaze, n, 0)

SpecCorridor == InitCorridor /\ [][Next]_vars

\* Four rows of six cells, all interior cells open.
\*      ######
\*      @    #
\*      #    %
\*      ######
OpenMaze == [rows |-> 4, cols |-> 6, file |-> MazeFile(4, 6, Interior(4, 6))]

InitOpen == InitRun(OpenMaze, 2 * PairWorkers, 0)

\* The steps of the workers of the forward direction.
NextForward ==
    \/ \E i \in Workers : Start("start", i)
    \/ \E i \in Workers : Loop("start", i)
    \/ \E i \in Workers : Meet("start", i)
    \/ \E i \in Workers : Expand("start", i)
    \/ \E i \in Workers : Drain("start", i)
    \/ \E i \in Workers : Open("start", i)
    \/ \E i \in Workers : Modify("start", i)
    \/ \E i \in Workers : Idle("start", i)
    \/ \E i \in Workers : Detect("start", i)

\* The runs in which the threads of the backward direction have not yet been
\* scheduled.
SpecForward == InitOpen /\ [][NextForward]_vars

---------------------------------------------------------------------------
(* The inboxes at the level of their pointers: the send of lines 236-245   *)
(* and the receive of lines 279-321 of one direction, with the search      *)
(* around them left out.  A worker proposes a neighbour of a cell it owns. *)

\* The address of the k-th message of worker i's chunk.
ChunkSlot(i, k) == i * MaxSends + k

\* alloc_msg that takes from the bin of the next worker's queue.
alloc_msg_of_peer(i) ==
    LET j == (i + 1) % thread_num
    IN  IF bin[j] # 0
        THEN [msg |-> bin[j], bin |-> chunk[bin[j]].next, len |-> end_chunk_len[i]]
        ELSE [msg |-> ChunkSlot(i, end_chunk_len[i] + 1), bin |-> 0,
              len |-> end_chunk_len[i] + 1]

\* Lines 119-141: a message from the bin, else the next one of the chunk.
alloc_msg(i) ==
    IF bin[i] # 0
    THEN [msg |-> bin[i], bin |-> chunk[bin[i]].next, len |-> end_chunk_len[i]]
    ELSE [msg |-> ChunkSlot(i, end_chunk_len[i] + 1), bin |-> 0,
          len |-> end_chunk_len[i] + 1]

\* Lines 233-241: the queue is picked, the message allocated from the sender's
\* own queue and filled.
Allocate(i, c, k) ==
    /\ at[i] = "loop" /\ Len(sent_log) < MaxSends
    /\ c \in Interior(rows, cols) /\ Owner(c) = i
    /\ LET t == Neighbours(cols, c)[k]
           a == alloc_msg(i)
       IN  /\ t \in Interior(rows, cols)
           /\ bin' = [bin EXCEPT ![i] = a.bin]
           /\ end_chunk_len' = [end_chunk_len EXCEPT ![i] = a.len]
           /\ chunk' = [chunk EXCEPT ![a.msg] =
                           [next |-> @.next, x |-> XOf(cols, t), y |-> YOf(cols, t),
                            id |-> Len(sent_log) + 1]]
           /\ msg_new' = [msg_new EXCEPT ![i] = a.msg]
           /\ mq' = [mq EXCEPT ![i] =
                        hash_distribute(thread_num, XOf(cols, t), YOf(cols, t))]
           /\ sent_log' = Append(sent_log, [x |-> XOf(cols, t), y |-> YOf(cols, t),
                                            pushed |-> FALSE])
    /\ at' = [at EXCEPT ![i] = "send"]
    /\ UNCHANGED <<head, msg_start, chain_msg, taken>>
    /\ UNCHANGED run_vars

\* Line 244: new_msg->next = mq->head.
ReadHead(i) ==
    /\ at[i] = "send"
    /\ chunk' = [chunk EXCEPT ![msg_new[i]].next = head[mq[i]]]
    /\ at' = [at EXCEPT ![i] = "cas"]
    /\ UNCHANGED <<head, bin, end_chunk_len, msg_new, mq, msg_start, chain_msg,
                   sent_log, taken>>
    /\ UNCHANGED run_vars

\* A plain store in the place of the compare-and-exchange.
store_unconditional(ptr, expected, desired) ==
    [ok |-> TRUE, ptr |-> desired, expected |-> expected]

\* __atomic_compare_exchange_n(ptr, expected, desired): on failure the value
\* found is written to *expected.
compare_exchange(ptr, expected, desired) ==
    IF ptr = expected
    THEN [ok |-> TRUE, ptr |-> desired, expected |-> expected]
    ELSE [ok |-> FALSE, ptr |-> ptr, expected |-> ptr]

\* Line 245: the compare-and-exchange of mq->head, with new_msg->next as the
\* expected value; the loop goes back to line 244 when it fails.
CompareExchange(i) ==
    /\ at[i] = "cas"
    /\ LET r == compare_exchange(head[mq[i]], chunk[msg_new[i]].next, msg_new[i])
       IN  /\ head' = [head EXCEPT ![mq[i]] = r.ptr]
           /\ chunk' = [chunk EXCEPT ![msg_new[i]].next = r.expected]
           /\ at' = [at EXCEPT ![i] = IF r.ok THEN "loop" ELSE "send"]
           /\ msg_new' = [msg_new EXCEPT ![i] = IF r.ok THEN 0 ELSE @]
           /\ sent_log' = IF r.ok
                          THEN [sent_log EXCEPT ![chunk[msg_new[i]].id].pushed = TRUE]
                          ELSE sent_log
    /\ UNCHANGED <<bin, end_chunk_len, mq, msg_start, chain_msg, taken>>
    /\ UNCHANGED run_vars

\* Lines 279-290: the exchange of the own head with NULL (an exchange that
\* returns NULL changes nothing).
Exchange(i) ==
    /\ at[i] = "loop" /\ head[i] # 0
    /\ msg_start' = [msg_start EXCEPT ![i] = head[i]]
    /\ chain_msg' = [chain_msg EXCEPT ![i] = head[i]]
    /\ head' = [head EXCEPT ![i] = 0]
    /\ at' = [at EXCEPT ![i] = "walk"]
    /\ UNCHANGED <<bin, end_chunk_len, chunk, msg_new, mq, sent_log, taken>>
    /\ UNCHANGED run_vars

\* Lines 293-321: one message of the chain is read; after the last one
\* free_msg (lines 143-146) links the chain into the receiver's bin.
Walk(i) ==
    /\ at[i] = "walk"
    /\ LET p == chain_msg[i]
           next_msg == chunk[p].next
       IN  /\ taken' = [taken EXCEPT ![chunk[p].id] =
                           Append(@, [by |-> i, x |-> chunk[p].x, y |-> chunk[p].y])]
           /\ IF next_msg = 0
              THEN /\ chunk' = [chunk EXCEPT ![p].next = bin[i]]
                   /\ bin' = [bin EXCEPT ![i] = msg_start[i]]
                   /\ msg_start' = [msg_start EXCEPT ![i] = 0]
                   /\ chain_msg' = [chain_msg EXCEPT ![i] = 0]
                   /\ at' = [at EXCEPT ![i] = "loop"]
              ELSE /\ chain_msg' = [chain_msg EXCEPT ![i] = next_msg]
                   /\ UNCHANGED <<chunk, bin, msg_start, at>>
    /\ UNCHANGED <<head, end_chunk_len, msg_new, mq, sent_log>>
    /\ UNCHANGED run_vars

\* Three rows of five cells, the interior open.
QueueMaze == [rows |-> 3, cols |-> 5, file |-> MazeFile(3, 5, Interior(3, 5))]

InitQueue == \E w \in 2..MaxQueueWorkers : InitRun(QueueMaze, 2 * w, 0)

NextQueue ==
    \/ \E i \in Workers : \E c \in Interior(rows, cols) : \E k \in 1..4 :
          Allocate(i, c, k)
    \/ \E i \in Workers : ReadHead(i)
    \/ \E i \in Workers : CompareExchange(i)
    \/ \E i \in Workers : Exchange(i)
    \/ \E i \in Workers : Walk(i)

SpecQueue == InitQueue /\ [][NextQueue]_vars

\* The addresses linked from p, at most fuel of them.
RECURSIVE Linked(_, _)
Linked(p, fuel) ==
    IF p = 0 \/ fuel = 0 THEN <<>>
    ELSE <<p>> \o Linked(chunk[p].next, fuel - 1)

\* The chain from p ends at NULL without meeting an address twice.
Acyclic(p) ==
    LET s == Linked(p, Cardinality(DOMAIN chunk) + 1)
    IN  /\ Len(s) <= Cardinality(DOMAIN chunk)
        /\ \A a, b \in 1..Len(s) : s[a] = s[b] => a = b

\* The messages worker j still has to walk: those linked from its head and
\* those left of the chain it is walking.
Held(j) ==
    Linked(head[j], Cardinality(DOMAIN chunk) + 1)
       \o (IF at[j] = "walk"
           THEN Linked(chain_msg[j], Cardinality(DOMAIN chunk) + 1) ELSE <<>>)

---------------------------------------------------------------------------
(* The heap on its own: the three operations of heap.c applied in any order to
   the heap of forward worker 0, on nodes with arbitrary f-scores. *)

HeapMaze == [rows |-> 3, cols |-> 3, file |-> MazeFile(3, 3, Interior(3, 3))]

InitHeap == InitRun(HeapMaze, 2, 0)

\* Node c is one of the entries of the heap.
Stored(c) == \E k \in 1..(heap["start"][0].size - 1) : heap["start"][0].nodes[k] = c

rest_vars == <<rows, cols, lines, input, nprocs, mqs, msg_sent, msg_received,
               return_value, finished, pc, len, nbr, msg, recv_sum, msg_sent_sum,
               sum_i, quiet, checked, released, main_pc, count, first_count>>

\* heap_insert of a node that is not in the heap, new or extracted before.
HeapInsert(c, f) ==
    /\ ~Stored(c)
    /\ LET N == [maze_nodes["start"] EXCEPT
                    ![c] = IF @ = NULL THEN [node_init EXCEPT !.fs = f]
                                       ELSE [@ EXCEPT !.fs = f]]
           r == heap_insert(heap["start"][0], N, c)
       IN  /\ heap' = [heap EXCEPT !["start"][0] = r.heap]
           /\ maze_nodes' = [maze_nodes EXCEPT !["start"] = r.N]
    /\ UNCHANGED <<node, rest_vars, queue_vars>>

\* heap_extract of a heap that is not empty.
HeapExtract ==
    /\ heap["start"][0].size > 1
    /\ LET r == heap_extract(heap["start"][0], maze_nodes["start"])
       IN  /\ node' = [node EXCEPT !["start"][0] = r.ret]
           /\ heap' = [heap EXCEPT !["start"][0] = r.heap]
           /\ maze_nodes' = [maze_nodes EXCEPT !["start"] = r.N]
    /\ UNCHANGED <<rest_vars, queue_vars>>

\* heap_update of an entry of the heap after its f-score was lowered.
HeapUpdate(c, f) ==
    /\ Stored(c)
    /\ f < maze_nodes["start"][c].fs
    /\ LET N == [maze_nodes["start"] EXCEPT ![c].fs = f]
           r == heap_update(heap["start"][0], N, c)
       IN  /\ heap' = [heap EXCEPT !["start"][0] = r.heap]
           /\ maze_nodes' = [maze_nodes EXCEPT !["start"] = r.N]
    /\ UNCHANGED <<node, rest_vars, queue_vars>>

NextHeap ==
    \/ \E c \in 0..(MaxHeapNodes - 1), f \in 0..MaxF : HeapInsert(c, f)
    \/ HeapExtract
    \/ \E c \in 0..(MaxHeapNodes - 1), f \in 0..MaxF : HeapUpdate(c, f)

SpecHeap == InitHeap /\ [][NextHeap]_vars

---------------------------------------------------------------------------
(* A second run of the program on the file the first run left. *)

Rerun ==
    /\ main_pc = "done" /\ first_count = 0
    /\ input' = lines
    /\ lines' = maze_file_init(rows, cols, lines)
    /\ maze_nodes' = [d \in Dirs |-> [c \in DOMAIN lines |-> NULL]]
    /\ heap' = [d \in Dirs |-> [i \in Workers |-> heap_init]]
    /\ mqs' = [d \in Dirs |-> [i \in Workers |-> <<>>]]
    /\ msg_sent' = [d \in Dirs |-> [i \in Workers |-> 0]]
    /\ msg_received' = [d \in Dirs |-> [i \in Workers |-> 0]]
    /\ return_value' = [x |-> -1, y |-> -1, min_len |-> INT_MAX]
    /\ finished' = 0
    /\ pc' = [d \in Dirs |-> [i \in Workers |-> "start"]]
    /\ node' = [d \in Dirs |-> [i \in Workers |-> NoCell]]
    /\ len' = [d \in Dirs |-> [i \in Workers |-> 0]]
    /\ nbr' = [d \in Dirs |-> [i \in Workers |-> 0]]
    /\ msg' = [d \in Dirs |-> [i \in Workers |-> <<>>]]
    /\ recv_sum' = [d \in Dirs |-> [i \in Workers |-> 0]]
    /\ msg_sent_sum' = [d \in Dirs |-> [i \in Workers |-> 0]]
    /\ sum_i' = [d \in Dirs |-> [i \in Workers |-> 0]]
    /\ quiet' = [d \in Dirs |-> [i \in Workers |-> FALSE]]
    /\ checked' = [d \in Dirs |-> [c \in DOMAIN lines |-> 0]]
    /\ released' = [d \in Dirs |-> [i \in Workers |-> FALSE]]
    /\ main_pc' = "join"
    /\ count' = 0
    /\ first_count' = count
    /\ UNCHANGED <<rows, cols, nprocs>>
    /\ UNCHANGED queue_vars

NextRerun ==
    \/ Next
    \/ Rerun

SpecRerun == InitDetour /\ [][NextRerun]_vars

---------------------------------------------------------------------------
(* What a run has produced. *)

\* main has printed the count.
Printed == main_pc \in {"destroy", "done"}

Meeting == maze_index(cols, return_value.x, return_value.y)
FwdChain == Chain(maze_nodes["start"], Meeting, rows * cols)
BwdChain == Chain(maze_nodes["goal"], Meeting, rows * cols)

Reverse(s) == [k \in 1..Len(s) |-> s[Len(s) + 1 - k]]

\* The stamped cells in the order of the walk from the start to the goal.
PrintedPath == Reverse(FwdChain) \o <<Meeting>> \o BwdChain

Stars == {c \in DOMAIN lines : lines[c] = "*"}

Adjacent(a, b) ==
    abs(XOf(cols, a) - XOf(cols, b)) + abs(YOf(cols, a) - YOf(cols, b)) = 1

IsPath(p) ==
    /\ p[1] = StartCell(cols)
    /\ p[Len(p)] = GoalCell(rows, cols)
    /\ \A k \in 1..(Len(p) - 1) : Adjacent(p[k], p[k + 1])
    /\ \A j, k \in 1..Len(p) : j # k => p[j] # p[k]
    /\ \A k \in 1..Len(p) : input[p[k]] # "#"

\* Node c of direction d is one of the size - 1 entries of its owner's heap.
InHeap(d, c) ==
    \E k \in 1..(heap[d][Owner(c)].size - 1) : heap[d][Owner(c)].nodes[k] = c

\* Every worker is in the idle loop.
Spinning == \A d \in Dirs : \A i \in Workers : pc[d][i] \in {"idle", "sum"}

\* The work direction d holds: the messages in its inboxes, the messages of
\* drained chains not yet applied, the entries of its heaps and the extracted
\* nodes whose processing is not yet counted.
Pending(d) ==
    SumOver([i \in Workers |->
                 Len(mqs[d][i]) + Len(msg[d][i]) + (heap[d][i].size - 1)
                 + (IF pc[d][i] \in {"meet", "update", "expand"} THEN 1 ELSE 0)],
            Workers)

\* No thread of the search runs any more: the workers have returned, or a fault
\* has killed the process.
Halted == Joined \/ main_pc = "crashed"

---------------------------------------------------------------------------
(* Properties. *)

\* C1: on a maze with a path, with at least one worker per direction, the
\* printed length is the number of cells of a shortest path from the start to
\* the goal, as the breadth-first search finds it.
Optimality ==
    (Printed /\ thread_num >= 1 /\ Solvable) => count = Shortest

PathValidity ==
    (Printed /\ thread_num >= 1) =>
        /\ IsPath(PrintedPath)
        /\ Stars = Range(PrintedPath)
        /\ Cardinality(Stars) = count

PathStamped ==
    /\ Printed /\ thread_num >= 1
    /\ Len(FwdChain) >= 1 /\ Len(BwdChain) >= 1
    /\ \E c \in Interior(rows, cols) : input[c] = "#"

\* C4: when the search has stopped, the g-scores of the two nodes of the
\* recorded meeting cell sum to the length of a shortest path; each g counts
\* the meeting cell, so the sum is the number of cells plus one.
MeetingOptimality ==
    (Joined /\ thread_num >= 1 /\ Solvable) =>
        maze_nodes["start"][Meeting].gs + maze_nodes["goal"][Meeting].gs
            = Shortest + 1

\* C5: on a maze without a path, with at least one worker per direction,
\* min_len stays INT_MAX, no worker sets the flag, no worker returns, and from
\* some point on every worker is in the idle loop.
NoPathSpins ==
    (~Solvable /\ thread_num >= 1) =>
        /\ [](/\ return_value.min_len = INT_MAX
              /\ finished = 0
              /\ \A d \in Dirs : \A i \in Workers : pc[d][i] # "done")
        /\ <>[]Spinning

NoPathSpinning ==
    /\ ~Solvable /\ thread_num >= 1 /\ Spinning
    /\ \A d \in Dirs : \A i \in Workers : msg_received[d][i] >= 1

\* C6: for every number of CPUs each direction has at least one worker, and
\* when main reads the record of the best meeting it holds a cell of the maze.
WorkerClamp ==
    /\ thread_num >= 1
    /\ Joined => /\ return_value.x \in 0..(cols - 1)
                 /\ return_value.y \in 0..(rows - 1)

\* C7: the printed integer is 1 plus the number of nodes of the forward chain
\* above the meeting node plus the number of nodes of the backward chain above
\* it, and that is the number of cells of the printed path: none is counted
\* twice.
CountsCellsOnce ==
    (Printed /\ thread_num >= 1) =>
        /\ count = 1 + Len(FwdChain) + Len(BwdChain)
        /\ count = Cardinality({Meeting} \cup Range(FwdChain) \cup Range(BwdChain))

CountPrinted ==
    Printed /\ thread_num >= 1 /\ count >= 4 /\ Len(FwdChain) # Len(BwdChain)

\* C8: when the run is over every byte of the grid is as it was before, but for
\* the cells of the reported path, which hold '*'; no wall is overwritten, and
\* the marks '@' and '%' are in the file.
Frame ==
    main_pc \in {"done", "crashed"} =>
        /\ \A c \in DOMAIN lines :
              lines[c] # input[c] =>
                  /\ lines[c] = "*"
                  /\ input[c] # "#"
                  /\ return_value.x >= 0
                  /\ c \in Range(PrintedPath)
        /\ lines[maze_index(cols, 0, 1)] = "@"
        /\ lines[maze_index(cols, cols - 1, rows - 2)] = "%"

\* C9: the run on the file that a first run has stamped prints the length the
\* first run printed.
RerunSameLength ==
    (Printed /\ first_count > 0) => count = first_count

\* C10: on the maze of seven rows and seven columns with the wall from (3,1) to
\* (3,4) every run reports the length of a shortest path, with one worker per
\* direction as with more: 10 as the sum of the two g-scores of a meeting cell
\* on it, which is one more than the number of its cells that is printed.
WallLength ==
    Printed => count + 1 = 10

\* C11: on the maze of five rows and five columns whose open cells are the
\* corridor (1,1),(2,1),(3,1),(3,2),(3,3) the printed length is 5, the number
\* of cells of the corridor, and the stamped cells are exactly those five.
CorridorLength ==
    Printed => (count = 5 /\ Stars = CorridorCells)

CorridorPrinted ==
    /\ main_pc = "done" /\ input = CorridorMaze.file
    /\ count = 5 /\ Stars = CorridorCells

\* C11 as stated: the printed length on that maze is 4.
CorridorLengthFour ==
    Printed => (count = 4 /\ Stars = CorridorCells)

\* C12: when a worker sets the termination flag because the sums of its own
\* pass over the counters agree and a meeting is known (the flag not being set
\* already), there has been an instant of that pass at which its direction
\* held no work: every inbox and every heap of the direction empty and no
\* worker of it in an expansion or a drain.  The counters are read one by one
\* while the peers run.
DetectorSound ==
    [][\A d \in Dirs : \A i \in Workers :
          (pc[d][i] = "sum" /\ finished = 0 /\ finished' = 1 /\ pc'[d][i] = "done")
              => quiet[d][i]]_vars

DetectedWithPeer ==
    /\ thread_num = 2 /\ finished = 1
    /\ \E d \in Dirs : \E i \in Workers :
          /\ pc[d][i] = "done"
          /\ \A j \in Workers \ {i} : pc[d][j] \in {"idle", "sum"}
          /\ \A j \in Workers : pc[Other(d)][j] # "done"
          /\ \A j \in Workers : msg_sent[d][j] >= 1

\* C13: a worker that finds the counterpart's table entry of its extracted
\* node occupied reads a g-score that has been set: the node was stored in the
\* table after its g was written, so the g read by the meet check is never the
\* INT_MAX of node_init and the sum of the two g-scores does not overflow.
PublishedWithG ==
    \A d \in Dirs : \A i \in Workers :
        (pc[d][i] = "meet" /\ maze_nodes[Other(d)][node[d][i]] # NULL) =>
            /\ maze_nodes[Other(d)][node[d][i]].gs < INT_MAX
            /\ maze_nodes[d][node[d][i]].gs
                   <= INT_MAX - maze_nodes[Other(d)][node[d][i]].gs

\* C14: the heap_id of a node is positive exactly when the node is one of the
\* entries of its owner's heap, and then the entry at index heap_id is that
\* node; a node that heap_extract has returned, and a node that a prune has
\* discarded, has heap_id 0.
HeapIdExact ==
    \A d \in Dirs : \A c \in DOMAIN maze_nodes[d] :
        maze_nodes[d][c] # NULL =>
            /\ (maze_nodes[d][c].heap_id > 0) <=> InHeap(d, c)
            /\ InHeap(d, c) =>
                   /\ maze_nodes[d][c].heap_id < heap[d][Owner(c)].size
                   /\ heap[d][Owner(c)].nodes[maze_nodes[d][c].heap_id] = c

\* C15: a message that improves the g-score of a node whose heap_id is not 0
\* finds that node in the worker's heap at index heap_id, so that heap_update
\* moves an entry of the heap and overwrites no other; also when the node has
\* been extracted or discarded before.
UpdatesInHeap ==
    \A d \in Dirs : \A i \in Workers :
        pc[d][i] \in {"receive", "modify"} =>
            LET m == Head(msg[d][i])
                c == maze_index(cols, m.x, m.y)
                adj == maze_nodes[d][c]
            IN  (adj # NULL /\ m.gs < adj.gs /\ adj.heap_id # 0) =>
                    /\ InHeap(d, c)
                    /\ heap[d][i].nodes[adj.heap_id] = c

\* C16: min_len is INT_MAX or the sum of two g-scores that were set, so it is
\* positive and not below the sum that the two nodes of a cell on a shortest
\* path have (the number of cells of the path plus one); it is never the
\* result of an overflow.
MinLenUpperBound ==
    \/ return_value.min_len = INT_MAX
    \/ /\ Solvable
       /\ return_value.min_len > 0
       /\ return_value.min_len >= Shortest + 1

\* C17: no thread reads a node of an arena that has been destroyed: not a
\* worker in its meet check (the counterpart's node), not a worker in its
\* neighbour loop (the g-score of a node of its own direction), not main when
\* it walks the parent chains after the joins.
ArenaLive ==
    /\ \A d \in Dirs : \A i \in Workers :
           /\ (Running /\ pc[d][i] = "meet"
                  /\ maze_nodes[Other(d)][node[d][i]] # NULL) =>
                  ~Dangling(Other(d), node[d][i])
           /\ (Running /\ pc[d][i] = "expand") =>
                  ~ReadsDangling(d, node[d][i], nbr[d][i])
    /\ (main_pc = "join" /\ Joined /\ return_value.x >= 0) =>
           \A d \in Dirs : ~Dangling(d, Meeting)

\* C18: in each direction the sum of the sent counters less the sum of the
\* received counters is the number of messages sent and not yet applied plus
\* the number of entries of the heaps plus the number of extracted nodes whose
\* processing is not yet counted; it is never negative, and it is 0 only when
\* the direction holds no work.
Ledger ==
    \A d \in Dirs :
        LET diff == SumOver(msg_sent[d], Workers) - SumOver(msg_received[d], Workers)
        IN  /\ diff = Pending(d)
            /\ diff >= 0
            /\ diff = 0 => Quiescent(d)

LedgerAtWork ==
    /\ thread_num = 2
    /\ \E d \in Dirs :
          /\ \E i \in Workers : mqs[d][i] # <<>>
          /\ \E i \in Workers : pc[d][i] = "expand"
          /\ SumOver(msg_received[d], Workers) >= 1
          /\ Pending(d) >= 2

\* C19: a step of the neighbour loop that dispatches a proposal adds one to
\* the worker's sent counter and one message to an inbox; the step that ends
\* the expansion adds one to its received counter; the sent counter changes in
\* no other step but the opening of the start node.  A message applied from a
\* drained chain adds one to the received counter when it is redundant (its g
\* is not below the node's) and when it is merged into a node that is in the
\* heap, and nothing when it makes the node a new entry of the heap.
CountersPerStep ==
    [][\A d \in Dirs : \A i \in Workers :
          LET queued(q) == SumOver([j \in Workers |-> Len(q[d][j])], Workers)
              m == Head(msg[d][i])
              c == maze_index(cols, m.x, m.y)
          IN  /\ (pc[d][i] = "expand" /\ pc'[d][i] = "expand"
                     /\ nbr'[d][i] # nbr[d][i]) =>
                     /\ msg_sent'[d][i] = msg_sent[d][i] + 1
                     /\ msg_received'[d][i] = msg_received[d][i]
                     /\ queued(mqs') = queued(mqs) + 1
              /\ (pc[d][i] = "expand" /\ pc'[d][i] = "drain") =>
                     /\ msg_received'[d][i] = msg_received[d][i] + 1
                     /\ msg_sent'[d][i] = msg_sent[d][i]
                     /\ queued(mqs') = queued(mqs)
              /\ msg_sent'[d][i] # msg_sent[d][i] =>
                     /\ msg_sent'[d][i] = msg_sent[d][i] + 1
                     /\ pc[d][i] = "start" \/ queued(mqs') = queued(mqs) + 1
              /\ (pc[d][i] \in {"receive", "modify"} /\ msg'[d][i] # msg[d][i]) =>
                     /\ msg_sent'[d][i] = msg_sent[d][i]
                     /\ m.gs >= maze_nodes[d][c].gs =>
                            msg_received'[d][i] = msg_received[d][i] + 1
                     /\ (m.gs < maze_nodes[d][c].gs /\ InHeap(d, c)) =>
                            msg_received'[d][i] = msg_received[d][i] + 1
                     /\ heap'[d][i].size = heap[d][i].size + 1 =>
                            msg_received'[d][i] = msg_received[d][i]]_vars

CountedBothWays ==
    /\ Running
    /\ \E d \in Dirs : \E i \in Workers :
          /\ msg_sent[d][i] >= 2
          /\ msg_received[d][i] >= 3
          /\ pc[d][i] \in {"receive", "modify"}
          /\ LET m == Head(msg[d][i])
                 c == maze_index(cols, m.x, m.y)
             IN  /\ maze_nodes[d][c] # NULL
                 /\ m.gs < maze_nodes[d][c].gs
                 /\ InHeap(d, c)

\* C20: under every interleaving of the sends and the receives of the workers
\* of a direction, a message whose compare-and-exchange has succeeded is, with
\* the coordinates it was sent with, either held once by the owner of its
\* cell (linked from the owner's head or left in the chain the owner walks)
\* or has been walked once by that owner, never both and never twice; no
\* other worker holds or walks it, a message not yet pushed is held by
\* nobody, and every head and every chain being walked is finite and acyclic.
InboxDelivery ==
    /\ \A j \in Workers :
          /\ Acyclic(head[j])
          /\ at[j] = "walk" => Acyclic(chain_msg[j])
          /\ \A k \in 1..Len(Held(j)) : chunk[Held(j)[k]].id \in 1..Len(sent_log)
    /\ taken[0] = <<>>
    /\ \A id \in 1..Len(sent_log) :
          LET m == sent_log[id]
              owner == hash_distribute(thread_num, m.x, m.y)
              copies(j) == {k \in 1..Len(Held(j)) : chunk[Held(j)[k]].id = id}
          IN  /\ \A j \in Workers \ {owner} : copies(j) = {}
              /\ \A k \in copies(owner) :
                    /\ chunk[Held(owner)[k]].x = m.x
                    /\ chunk[Held(owner)[k]].y = m.y
              /\ \A k \in 1..Len(taken[id]) :
                    taken[id][k] = [by |-> owner, x |-> m.x, y |-> m.y]
              /\ Cardinality(copies(owner)) + Len(taken[id])
                    = IF m.pushed THEN 1 ELSE 0

\* A compare-and-exchange is about to fail because the head has moved since it
\* was read, on a message that comes from the bin of a worker other than the
\* one whose chunk holds it, while walked messages and a chain of two exist.
DeliveredUnderContention ==
    /\ \E i \in Workers :
          /\ at[i] = "cas"
          /\ chunk[msg_new[i]].next # head[mq[i]]
          /\ msg_new[i] \notin {ChunkSlot(i, k) : k \in 1..MaxSends}
    /\ \E id \in 1..MaxSends : taken[id] # <<>>
    /\ \E j \in Workers : Len(Held(j)) >= 2

MeetCheck ==
    [][/\ \A d \in Dirs : \A i \in Workers :
             LET c == node[d][i]
                 n == maze_nodes[d][c]
                 m == maze_nodes[Other(d)][c]
             IN  /\ (pc[d][i] = "meet" /\ pc'[d][i] = "update") =>
                        /\ m # NULL
                        /\ len'[d][i] = IF m.gs <= INT_MAX - n.gs
                                        THEN n.gs + m.gs ELSE INT_MAX
                        /\ return_value' = return_value
                 /\ (pc[d][i] = "update" /\ pc'[d][i] # "update") =>
                        /\ return_value' =
                              IF len[d][i] < return_value.min_len
                              THEN [x |-> XOf(cols, c), y |-> YOf(cols, c),
                                    min_len |-> len[d][i]]
                              ELSE return_value
                        /\ msg_received'[d][i] = msg_received[d][i] + 1
                        /\ msg_sent' = msg_sent /\ mqs' = mqs
                        /\ pc'[d][i] = "drain"
       /\ return_value' # return_value =>
             \E d \in Dirs : \E i \in Workers :
                /\ pc[d][i] = "update" /\ pc'[d][i] = "drain"
                /\ \A e \in Dirs : \A j \in Workers :
                      <<e, j>> # <<d, i>> => pc'[e][j] = pc[e][j]]_vars

\* C23: the steps that apply a drained message {parent, x, y, g_new}: when the
\* table entry of (x,y) is empty the owner first stores a new node there; a
\* message with g_new < node.g sets the node's parent, g and f and leaves the
\* node stored in the owner's heap at index heap_id (by a decrease-key when it
\* was in the heap, by an insert that adds one entry when it was not); a
\* message with g_new >= node.g leaves the table and the heap as they were.
\* Each step takes the first message of the chain, which is so applied once.
MessageApplied ==
    [][\A d \in Dirs : \A i \in Workers :
          LET m == Head(msg[d][i])
              c == maze_index(cols, m.x, m.y)
              adj == maze_nodes[d][c]
              new == maze_nodes'[d][c]
          IN  /\ (pc[d][i] = "receive" /\ pc'[d][i] = "modify") =>
                    /\ adj = NULL /\ new # NULL /\ new.gs = INT_MAX
                    /\ new.heap_id = 0 /\ msg' = msg /\ heap' = heap
              /\ (pc[d][i] \in {"receive", "modify"} /\ msg'[d][i] # msg[d][i]) =>
                    /\ msg'[d][i] = Tail(msg[d][i])
                    /\ adj # NULL
                    /\ IF m.gs < adj.gs
                       THEN /\ new.parent = m.parent /\ new.gs = m.gs
                            /\ new.fs = m.gs + heuristic(m.x, m.y, goal_x(d), goal_y(d))
                            /\ new.heap_id \in 1..(heap'[d][i].size - 1)
                            /\ heap'[d][i].nodes[new.heap_id] = c
                            /\ heap'[d][i].size =
                                  IF InHeap(d, c) THEN heap[d][i].size
                                  ELSE heap[d][i].size + 1
                       ELSE maze_nodes' = maze_nodes /\ heap' = heap]_vars

InitialNode ==
    [][\A d \in Dirs : \A i \in Workers :
          LET c == maze_index(cols, start_x(d), start_y(d))
          IN  /\ pc[d][i] = "start" =>
                    /\ heap[d][i].size = 1
                    /\ msg_sent[d][i] = 0 /\ msg_received[d][i] = 0
              /\ (pc[d][i] = "start" /\ pc'[d][i] # "start") =>
                    IF i = (start_x(d) + start_y(d)) % thread_num
                    THEN /\ maze_nodes[d][c] = NULL
                         /\ maze_nodes'[d][c] =
                               [gs |-> 1,
                                fs |-> 1 + abs(start_x(d) - goal_x(d))
                                         + abs(start_y(d) - goal_y(d)),
                                heap_id |-> 1, parent |-> NoCell]
                         /\ \A e \in DOMAIN maze_nodes[d] \ {c} :
                               maze_nodes'[d][e] = maze_nodes[d][e]
                         /\ heap'[d][i].size = 2 /\ heap'[d][i].nodes[1] = c
                         /\ msg_sent'[d][i] = 1 /\ msg_received'[d][i] = 0
                    ELSE /\ maze_nodes'[d] = maze_nodes[d]
                         /\ heap'[d][i] = heap[d][i]
                         /\ msg_sent'[d][i] = 0 /\ msg_received'[d][i] = 0]_vars

\* Both workers of a direction have passed their initialization, the second
\* worker being the owner of the start cell: its heap holds the start node and
\* its sent counter is 1, the heap of the other is empty and its counters zero.
OriginOpened ==
    /\ Running /\ thread_num = 2
    /\ \E d \in Dirs :
          /\ (start_x(d) + start_y(d)) % thread_num = 1
          /\ pc[d][0] = "loop" /\ pc[d][1] = "loop"
          /\ heap[d][1].size = 2 /\ msg_sent[d][1] = 1
          /\ heap[d][0].size = 1 /\ msg_sent[d][0] = 0 /\ msg_received[d][0] = 0
          /\ maze_nodes[d][maze_index(cols, start_x(d), start_y(d))] # NULL

\* C26: under any sequence of insert, extract-min and decrease-key (the last
\* on an entry of the heap whose f was lowered), after every operation the f of
\* the parent of an entry is at most the f of the entry, every entry's heap_id
\* is its index in the array, and the node extract-min returns has an f that
\* is minimal among the entries the heap held.
HeapProperty ==
    [][LET h == heap["start"][0]
           N == maze_nodes["start"]
       IN  /\ \A k \in 2..(h'.size - 1) :
                 N'[h'.nodes[k \div 2]].fs <= N'[h'.nodes[k]].fs
           /\ \A k \in 1..(h'.size - 1) :
                 /\ N'[h'.nodes[k]] # NULL
                 /\ N'[h'.nodes[k]].heap_id = k
           /\ \A j, k \in 1..(h'.size - 1) : h'.nodes[j] = h'.nodes[k] => j = k
           /\ h'.size = h.size - 1 =>
                 /\ node'["start"][0] = h.nodes[1]
                 /\ \A k \in 1..(h.size - 1) :
                       N[node'["start"][0]].fs <= N[h.nodes[k]].fs
                 /\ {h'.nodes[k] : k \in 1..(h'.size - 1)}
                       = {h.nodes[k] : k \in 1..(h.size - 1)} \ {h.nodes[1]}]_vars

\* The heap holds four entries in three levels with the smaller child of the
\* root on the right, and the node last extracted has been inserted again.
HeapExercised ==
    LET h == heap["start"][0]
        N == maze_nodes["start"]
    IN  /\ rows = 3 /\ h.size = MaxHeapNodes + 1
        /\ node["start"][0] # NoCell
        /\ Stored(node["start"][0])
        /\ N[h.nodes[1]].fs < N[h.nodes[2]].fs
        /\ N[h.nodes[3]].fs < N[h.nodes[2]].fs
        /\ N[h.nodes[2]].fs < N[h.nodes[4]].fs

\* C27: when the node of a cell has been extracted without being pruned, and
\* its meet check finished, by a worker of each direction, min_len is at most
\* the sum of the g-scores the two nodes were extracted with: a meeting the
\* first extractor missed because the counterpart's entry was still empty has
\* been recorded by the extraction of the counterpart.
StaleEmptiness ==
    \A c \in DOMAIN lines :
        (checked["start"][c] > 0 /\ checked["goal"][c] > 0)
            => return_value.min_len <= checked["start"][c] + checked["goal"][c]

\* A forward worker found the counterpart's entry of its node empty and is
\* still expanding the node; meanwhile the backward search has extracted the
\* node of the same cell and its check has recorded the meeting.
MissedThenRecorded ==
    \E i \in Workers :
        LET c == node["start"][i]
        IN  /\ Running /\ pc["start"][i] = "expand"
            /\ checked["start"][c] > 0 /\ checked["goal"][c] > 0
            /\ return_value.min_len = checked["start"][c] + checked["goal"][c]
            /\ return_value.x = XOf(cols, c) /\ return_value.y = YOf(cols, c)

\* C28: once the termination flag is set, under fair scheduling every worker
\* of both directions eventually returns, wherever it was when the flag was
\* set.
StopPropagates ==
    (finished = 1) ~> Joined

\* C29: a worker returns only by a step that leaves the flag set: the step of
\* the loop head that reads the flag as set, or the step of the idle loop that
\* sets it.  A worker in the idle loop leaves it without returning only to
\* drain its own inbox, which is then not empty.
ReturnsOnFlag ==
    [][\A d \in Dirs : \A i \in Workers :
          /\ (pc[d][i] # "done" /\ pc'[d][i] = "done") =>
                /\ finished' = 1
                /\ \/ pc[d][i] = "loop" /\ finished # 0 /\ finished' = finished
                   \/ pc[d][i] = "sum"
          /\ (pc[d][i] = "loop" /\ pc'[d][i] = "done") => heap'[d][i] = heap[d][i]
          /\ (pc[d][i] \in {"idle", "sum"} /\ pc'[d][i] \notin {"idle", "sum", "done"}) =>
                /\ pc[d][i] = "idle" /\ pc'[d][i] = "drain"
                /\ mqs[d][i] # <<>>
                /\ finished' = finished]_vars

\* One worker has returned with the flag set while a worker of the other
\* direction, its heap empty, is about to drain the inbox that made it leave
\* the idle loop.
ReturnedOnFlag ==
    /\ Running /\ finished = 1
    /\ \E d \in Dirs : \E i, j \in Workers :
          /\ pc[d][i] = "done"
          /\ pc[Other(d)][j] = "drain"
          /\ heap[Other(d)][j].size = 1
          /\ mqs[Other(d)][j] # <<>>

\* C30: the termination flag starts at 0 and, once 1, stays 1.  The step that
\* takes it from 0 to 1 is the termination test of a worker in the idle loop
\* that finds min_len below INT_MAX and the sum of the sent counters of its
\* direction, as it has read them, equal to the sum of the received counters
\* it has read.
FlagSetOnce ==
    /\ finished = 0
    /\ [][/\ finished # 0 => finished' = finished
          /\ finished' \in {0, 1}
          /\ (finished = 0 /\ finished' # 0) =>
                \E d \in Dirs : \E i \in Workers :
                    /\ pc[d][i] = "sum" /\ pc'[d][i] = "done"
                    /\ sum_i[d][i] = thread_num - 1
                    /\ return_value.min_len < INT_MAX
                    /\ msg_sent_sum[d][i] + msg_sent[d][thread_num - 1]
                          = recv_sum[d][i]]_vars

\* The flag has just been set: the one worker that has returned is the one
\* that set it, while its peer and both workers of the other direction are
\* still running.
FlagFirstSet ==
    /\ Running /\ finished = 1 /\ thread_num = 2
    /\ return_value.min_len < INT_MAX
    /\ \E d \in Dirs : \E i \in Workers :
          /\ pc[d][i] = "done"
          /\ \A e \in Dirs : \A j \in Workers :
                <<e, j>> # <<d, i>> => pc[e][j] \notin {"done", "start"}

\* C31: the record of the best meeting starts as (-1, -1, INT_MAX), and every
\* step that changes it, whichever worker of whichever direction takes it,
\* makes min_len strictly smaller.
MinLenDecreases ==
    /\ return_value = [x |-> -1, y |-> -1, min_len |-> INT_MAX]
    /\ [][return_value' # return_value =>
             return_value'.min_len < return_value.min_len]_vars

\* A meeting has been recorded and a worker holds a shorter one that its next
\* step will put in its place.
ShorterMeetingDue ==
    /\ Running /\ return_value.min_len < INT_MAX
    /\ \E d \in Dirs : \E i \in Workers :
          /\ pc[d][i] = "update"
          /\ 0 < len[d][i] /\ len[d][i] < return_value.min_len

\* C32: a node, once in the table, stays there; every step that changes its g
\* makes it strictly smaller, and its parent changes only in a step that
\* lowers its g.
GDecreases ==
    [][\A d \in Dirs : \A c \in DOMAIN maze_nodes[d] :
          maze_nodes[d][c] # NULL =>
             /\ maze_nodes'[d][c] # NULL
             /\ maze_nodes'[d][c].gs <= maze_nodes[d][c].gs
             /\ maze_nodes'[d][c].parent # maze_nodes[d][c].parent =>
                   maze_nodes'[d][c].gs < maze_nodes[d][c].gs]_vars

\* A worker is about to apply a message that lowers the g of a node which
\* already has a g and a parent from an earlier message.
LowerGDue ==
    \E d \in Dirs : \E i \in Workers :
        /\ Running /\ pc[d][i] = "receive" /\ msg[d][i] # <<>>
        /\ LET m == Head(msg[d][i])
               adj == maze_nodes[d][maze_index(cols, m.x, m.y)]
           IN  /\ adj # NULL
               /\ adj.parent # NoCell /\ adj.gs < INT_MAX
               /\ m.gs < adj.gs /\ m.parent # adj.parent

\* C33 as stated: every node that has a g has f = g + the Manhattan distance
\* from its cell to the goal cell of its direction, (cols-2, rows-2) for the
\* forward search and (1, 1) for the backward search.
FScoreToGoalCell ==
    \A d \in Dirs : \A c \in DOMAIN maze_nodes[d] :
        LET n == maze_nodes[d][c]
            gx == IF d = "start" THEN cols - 2 ELSE 1
            gy == IF d = "start" THEN rows - 2 ELSE 1
        IN  (n # NULL /\ n.gs < INT_MAX) =>
                n.fs = n.gs + abs(XOf(cols, c) - gx) + abs(YOf(cols, c) - gy)

\* C33, amended: every node that has a g (the origin node from its creation,
\* any other node from the first message applied to it) has f = g + the
\* Manhattan distance from its cell to the mark of its direction's goal in the
\* frame of the maze, (cols-1, rows-2) for the forward search and (0, 1) for
\* the backward search.
FScoreToGoalMark ==
    \A d \in Dirs : \A c \in DOMAIN maze_nodes[d] :
        LET n == maze_nodes[d][c]
            gx == IF d = "start" THEN cols - 1 ELSE 0
            gy == IF d = "start" THEN rows - 2 ELSE 1
        IN  (n # NULL /\ n.gs < INT_MAX) =>
                n.fs = n.gs + abs(XOf(cols, c) - gx) + abs(YOf(cols, c) - gy)

\* Both directions hold a node that got its g, f and parent from a message.
FScoresSet ==
    \A d \in Dirs : \E c \in DOMAIN maze_nodes[d] :
        /\ maze_nodes[d][c] # NULL
        /\ maze_nodes[d][c].parent # NoCell
        /\ maze_nodes[d][c].gs < INT_MAX

\* The state that only worker i of direction d writes outside the nodes.
Local(d, i) ==
    <<pc[d][i], node[d][i], nbr[d][i], msg[d][i], len[d][i], sum_i[d][i],
      recv_sum[d][i], msg_sent_sum[d][i], msg_sent[d][i], msg_received[d][i],
      heap[d][i]>>

\* C34: a step that changes the table slot of a cell (x,y) of a direction, or
\* any field of the node in it, is a step of the worker (x + y) mod W of that
\* direction and of no other worker; the entries of a worker's heap and the
\* node it is checking or expanding are nodes of cells it owns.
Ownership ==
    [][/\ maze_nodes' # maze_nodes =>
             \A d \in Dirs : \A c \in DOMAIN maze_nodes[d] :
                maze_nodes'[d][c] # maze_nodes[d][c] =>
                   LET o == (XOf(cols, c) + YOf(cols, c)) % thread_num
                   IN  /\ Local(d, o)' # Local(d, o)
                       /\ \A e \in Dirs : \A j \in Workers :
                             <<e, j>> # <<d, o>> => Local(e, j)' = Local(e, j)
       /\ \A d \in Dirs : \A i \in Workers :
             /\ \A k \in 1..(heap'[d][i].size - 1) :
                   LET c == heap'[d][i].nodes[k]
                   IN  (XOf(cols, c) + YOf(cols, c)) % thread_num = i
             /\ pc'[d][i] \in {"meet", "update", "expand"} =>
                   (XOf(cols, node'[d][i]) + YOf(cols, node'[d][i])) % thread_num = i
             /\ \A k \in 1..Len(msg'[d][i]) :
                   (msg'[d][i][k].x + msg'[d][i][k].y) % thread_num = i]_vars

\* With two workers per direction, each of the two workers of a direction has
\* created a node, one of them is expanding a node and the other holds a node
\* in its heap.
OwnersAtWork ==
    /\ Running /\ thread_num = 2
    /\ \E d \in Dirs : \E i, j \in Workers :
          /\ i # j
          /\ pc[d][i] = "expand"
          /\ heap[d][j].size > 1
          /\ maze_nodes[d][heap[d][j].nodes[1]].parent # NoCell

\* C35: in every state and in each direction, the node of the direction's
\* start cell has no parent, and every other node of the table has a parent
\* that is a node of the same table at a 4-adjacent cell with a smaller g; the
\* parent links from any node lead to the node of the start cell.
ParentChains ==
    \A d \in Dirs : \A c \in DOMAIN maze_nodes[d] :
        LET N == maze_nodes[d]
            origin == maze_index(cols, start_x(d), start_y(d))
            up == Chain(N, c, rows * cols)
        IN  N[c] # NULL =>
               /\ (N[c].parent = NoCell) <=> (c = origin)
               /\ c # origin =>
                     /\ N[N[c].parent] # NULL
                     /\ Adjacent(N[c].parent, c)
                     /\ N[N[c].parent].gs < N[c].gs
                     /\ up[Len(up)] = origin

\* C36: a table slot that holds a node holds it in every later state of the
\* run, and the node is never initialised again; a slot is filled only for a
\* cell whose byte is not '#', so that no wall cell ever has a node.
TableWriteOnce ==
    [][\A d \in Dirs : \A c \in DOMAIN maze_nodes[d] :
          /\ maze_nodes[d][c] # NULL =>
                /\ maze_nodes'[d][c] # NULL
                /\ maze_nodes'[d][c] = node_init => maze_nodes[d][c] = node_init
          /\ maze_nodes'[d][c] # NULL => input[c] # "#" /\ lines[c] # "#"]_vars

\* A worker is about to apply a message to a node that already has a g, next
\* to a wall cell of the interior, which has no node.
SecondMessageDue ==
    \E d \in Dirs : \E i \in Workers :
        /\ Running /\ pc[d][i] = "receive" /\ msg[d][i] # <<>>
        /\ LET c == maze_index(cols, Head(msg[d][i]).x, Head(msg[d][i]).y)
           IN  /\ maze_nodes[d][c] # NULL /\ maze_nodes[d][c].gs < INT_MAX
               /\ \E w \in Interior(rows, cols) :
                     /\ Adjacent(w, c) /\ input[w] = "#"
                     /\ maze_nodes[d][w] = NULL

\* C37: a step of a worker of one direction changes no slot of the node table
\* of the other direction, no field of a node in it, no inbox of the other
\* direction and nothing of the state of its workers; and every change of a
\* table or of an inbox is made by a step of a worker.
CounterpartReadOnly ==
    [][/\ \A d \in Dirs :
             (\E i \in Workers : Local(d, i)' # Local(d, i)) =>
                /\ maze_nodes'[Other(d)] = maze_nodes[Other(d)]
                /\ mqs'[Other(d)] = mqs[Other(d)]
                /\ \A j \in Workers : Local(Other(d), j)' = Local(Other(d), j)
       /\ (maze_nodes' # maze_nodes \/ mqs' # mqs) =>
             \E d \in Dirs : \E i \in Workers : Local(d, i)' # Local(d, i)]_vars

\* A worker has read the counterpart's node of its cell in the meet check and
\* holds the sum, while the counterpart has a proposal of its own in an inbox.
CounterpartRead ==
    \E d \in Dirs : \E i, j \in Workers :
        /\ Running /\ pc[d][i] = "update"
        /\ maze_nodes[Other(d)][node[d][i]] # NULL
        /\ maze_nodes[Other(d)][node[d][i]].gs < INT_MAX
        /\ mqs[Other(d)][j] # <<>>

\* C38: whenever min_len is below INT_MAX the recorded cell lies inside the
\* grid, is not a wall, and has a node in the table of each direction; when
\* all workers have returned with the flag set, min_len is below INT_MAX, so
\* that the reconstruction starts from two table entries that are not empty
\* and never from the initial (-1, -1).
MeetingRecorded ==
    /\ return_value.min_len < INT_MAX =>
          /\ return_value.x \in 0..(cols - 1)
          /\ return_value.y \in 0..(rows - 1)
          /\ input[Meeting] # "#"
          /\ maze_nodes["start"][Meeting] # NULL
          /\ maze_nodes["goal"][Meeting] # NULL
    /\ (thread_num >= 1 /\ Joined) =>
          /\ finished = 1
          /\ return_value.min_len < INT_MAX

\* All workers have returned and main is about to reconstruct the path from a
\* meeting at a cell that is neither the start nor the goal cell.
MeetingToReconstruct ==
    /\ main_pc = "join" /\ thread_num >= 1 /\ Joined
    /\ return_value.min_len < INT_MAX
    /\ Meeting \notin {StartCell(cols), GoalCell(rows, cols)}
    /\ maze_nodes["start"][Meeting].parent # NoCell
    /\ maze_nodes["goal"][Meeting].parent # NoCell

\* The messages on the free list of worker i's queue.
Bin(i) == Linked(bin[i], Cardinality(DOMAIN chunk) + 1)

\* The messages in worker j's inbox and the whole chain it has taken and not
\* yet put on its free list.
InUse(j) ==
    Linked(head[j], Cardinality(DOMAIN chunk) + 1)
       \o (IF at[j] = "walk"
           THEN Linked(msg_start[j], Cardinality(DOMAIN chunk) + 1) ELSE <<>>)

\* C39: a free list ends at NULL, shares no message with another free list,
\* with an inbox, with a chain being processed or with a message a sender is
\* filling or pushing, and a message being filled or pushed is in no inbox and
\* no chain either; a chain goes to the free list of its consumer only when
\* the consumer has read its last message and that message's next link, every
\* message of it having been read by that consumer; and the free list and the
\* chunk allocator of a queue change only in steps of the queue's own worker.
RecyclingSafe ==
    [][/\ \A i \in Workers :
             /\ Acyclic(bin[i])'
             /\ \A j \in Workers :
                   /\ Range(Bin(i))' \cap Range(InUse(j))' = {}
                   /\ i # j => Range(Bin(i))' \cap Range(Bin(j))' = {}
                   /\ msg_new'[j] # 0 =>
                         /\ msg_new'[j] \notin Range(Bin(i))'
                         /\ msg_new'[j] \notin Range(InUse(i))'
                         /\ i # j => msg_new'[j] # msg_new'[i]
       /\ \A i \in Workers :
             /\ (at[i] = "walk" /\ at'[i] = "loop") =>
                   /\ chunk[chain_msg[i]].next = 0
                   /\ bin'[i] = msg_start[i]
                   /\ Bin(i)' = Linked(msg_start[i], Cardinality(DOMAIN chunk) + 1)
                                   \o Bin(i)
                   /\ \A p \in Range(Linked(msg_start[i], Cardinality(DOMAIN chunk) + 1)) :
                         \E k \in 1..Len(taken'[chunk[p].id]) :
                            taken'[chunk[p].id][k].by = i
             /\ (bin'[i] # bin[i] \/ end_chunk_len'[i] # end_chunk_len[i]) =>
                   /\ at'[i] # at[i]
                   /\ \A j \in Workers \ {i} : at'[j] = at[j]]_vars

\* A worker is filling a message that it has taken from its free list and
\* that comes from the chunk of another worker, while its own inbox and its
\* free list hold further messages.
RecycledInFlight ==
    \E i \in Workers :
        /\ at[i] \in {"send", "cas"} /\ msg_new[i] # 0
        /\ msg_new[i] \notin {ChunkSlot(i, k) : k \in 1..MaxSends}
        /\ head[i] # 0
        /\ bin[i] # 0

============================================================================
